---- MODULE Spec2Model ----
(***************************************************************************)
(* Mock routing of safe_core: the request pipeline of                      *)
(* safe_core/src/client/mock/routing.rs over the shared mock vault.        *)
(*                                                                         *)
(* Every request operation of Routing is one action.  An action carries    *)
(* the whole call: hook, simulated time-out, operation quota, requester    *)
(* check, vault access and the response put on the session's channel.      *)
(***************************************************************************)
EXTENDS Integers, Sequences, FiniteSets, TLC

\* ------------------------------------------------------------------ bounds

\* Largest value given to set_network_limits(Some(n)).
MaxOps == 1
\* Mutations an account may commit (its initial balance).
MaxMutations == 2
\* Largest version a mutable data shell or an account key list reaches.
MaxVersion == 1
\* Calls of simulate_disconnect a session makes.
MaxDisconnects == 2
\* Handles of entry actions a session's object cache issues.
MaxHandles == 2
\* Events a pipelining client lets wait on the channel when it calls.
MaxBacklog == 1

\* how many errors are converted in one run
MaxCodes == 2

\* ------------------------------------------------------------- value space

\* Sessions (Routing values).  Session s signs with key s.
Sessions == {1}
\* Routing values whose calls are followed step by step, each on its own thread.
Threads == {1, 2}
\* sign::PublicKey values: the key of the session and the key of another identity.
Keys == {1, 2}
\* Contents of immutable data.
Contents == {4}
\* XorName values.
XorNames == 0 .. 6
\* Message identifiers.
MsgIds == {1}
\* Keys and values of mutable data entries.
EntryKeys == {1}
EntryValues == {1}

\* The reserved tag of an account's root record, and one ordinary tag.
TYPE_TAG_SESSION_PACKET == 0
Tags == {TYPE_TAG_SESSION_PACKET, 15}

\* The hash deriving a name from a key or a content: a stand-in for SHA3-256
\* that, like it, never gives two inputs of the model the same name.
sha3_256(bytes) == (bytes * 3) % 7

\* ------------------------------------------------------------ Option/Result

None == <<>>
Some(x) == <<x>>
IsSome(o) == Len(o) = 1
Unwrap(o) == o[1]

Unit == <<>>
Ok(v) == [ok |-> TRUE, err |-> "", val |-> v]
Err(e) == [ok |-> FALSE, err |-> e, val |-> Unit]

\* res.and_then(f), with f's result already computed
AndThen(res, next) == IF res.ok THEN next ELSE res

\* ------------------------------------------------------------- authorities

ClientManager(name) == <<"ClientManager", name>>
NaeManager(name) == <<"NaeManager", name>>
Client(s) == <<"Client", s>>
IsClientManager(auth) == auth[1] = "ClientManager"
AuthName(auth) == auth[2]

\* ------------------------------------------------------------------ DataId

\* An identifier that leaves the kind of the record out.
DataIdOfName(name) == <<"Mutable", name, 15>>

DataIdImmutable(name) == <<"Immutable", name>>
DataIdMutable(name, tag) == <<"Mutable", name, tag>>

ImmutableData(content) == [kind |-> "Immutable", name |-> sha3_256(content), value |-> content]

\* Data::Mutable(record)
MutableData(name, tag, version, entries, permissions, owners) ==
    [kind |-> "Mutable", name |-> name, tag |-> tag, version |-> version,
     data |-> entries, permissions |-> permissions, owners |-> owners]

\* A function with one more mapping (BTreeMap/HashMap insert).
MapInsert(map, k, v) == [x \in DOMAIN map \cup {k} |-> IF x = k THEN v ELSE map[x]]
MapRemove(map, k) == [x \in DOMAIN map \ {k} |-> map[x]]
EmptyMap == [x \in {} |-> x]

\* ------------------------------------------------------------------- state

VARIABLES
    accounts,   \* the vault's accounts: XorName -> Account, for the names that have one
    data,       \* the vault's data table: DataId -> Data, for the stored identifiers
    sess,       \* per Routing value: max_ops_countdown, timeout_simulation, request_hook, panicked
    chan,       \* per Routing value: the events sent on `sender` and not yet received
    last,       \* the request operation called last, and what it did
    limited,    \* per Routing value: the quota last set, and the calls since
    thr,        \* per Routing value called step by step: where its call stands
    mutex,      \* the thread that holds the lock of VAULT, NoThread when it is free
    life,       \* per Routing value: its background threads, its drop, its channel's receiver
    ffi,        \* the session's object cache of entry actions, and the callback called last
    codes       \* the errors converted to their numeric code so far, oldest first

vars == <<accounts, data, sess, chan, last, limited, thr, mutex, life, ffi, codes>>

\* ------------------------------------------------------- vault (mock store)

NewAccount ==
    [account_info |-> [mutations_done |-> 0, mutations_available |-> MaxMutations],
     auth_keys |-> {}, version |-> 0]

get_account(accts, name) == IF name \in DOMAIN accts THEN Some(accts[name]) ELSE None
insert_account(accts, name) == MapInsert(accts, name, NewAccount)

get_data(tbl, id) == IF id \in DOMAIN tbl THEN Some(tbl[id]) ELSE None
contains_data(tbl, id) == id \in DOMAIN tbl
insert_data(tbl, id, d) == MapInsert(tbl, id, d)

\* Reads go to the data manager of the name read.
authorise_read(dst, name) ==
    IF dst = NaeManager(name) THEN Ok(Unit) ELSE Err("InvalidOperation")

\* Mutations go to the client manager of an existing account, signed by the
\* account's own key or by one of its authorised keys, while balance is left.
authorise_mutation(accts, dst, sign_pk) ==
    IF ~IsClientManager(dst) THEN Err("InvalidOperation")
    ELSE IF AuthName(dst) \notin DOMAIN accts THEN Err("NoSuchAccount")
    ELSE IF /\ sha3_256(sign_pk) # AuthName(dst)
            /\ sign_pk \notin accts[AuthName(dst)].auth_keys THEN Err("AccessDenied")
    ELSE IF accts[AuthName(dst)].account_info.mutations_available = 0 THEN Err("LowBalance")
    ELSE Ok(Unit)

\* The account of dst pays for one mutation.
commit_mutation(accts, dst) ==
    IF AuthName(dst) \in DOMAIN accts
    THEN [accts EXCEPT ![AuthName(dst)].account_info =
            [mutations_done |-> @.mutations_done + 1,
             mutations_available |-> @.mutations_available - 1]]
    ELSE accts

\* Account::ins_auth_key / del_auth_key: [res, account]
account_ins_auth_key(account, key, version) ==
    IF version # account.version + 1
    THEN [res |-> Err("InvalidSuccessor"), account |-> account]
    ELSE [res |-> Ok(Unit),
          account |-> [account EXCEPT !.auth_keys = @ \cup {key}, !.version = version]]

account_del_auth_key(account, key, version) ==
    IF version # account.version + 1
    THEN [res |-> Err("InvalidSuccessor"), account |-> account]
    ELSE IF key \notin account.auth_keys
    THEN [res |-> Err("NoSuchKey"), account |-> account]
    ELSE [res |-> Ok(Unit),
          account |-> [account EXCEPT !.auth_keys = @ \ {key}, !.version = version]]

\* ------------------------------------------------------------- MutableData

Ins(value) == <<"Ins", value, 0>>
Update(value, entry_version) == <<"Update", value, entry_version>>
Del(entry_version) == <<"Del", 0, entry_version>>

UserKey(key) == <<"Key", key>>

is_action_allowed(md, requester, action) ==
    \/ requester \in md.owners
    \/ /\ UserKey(requester) \in DOMAIN md.permissions
       /\ action \in md.permissions[UserKey(requester)]

ActionPermission(act) ==
    IF act[1] = "Ins" THEN "Insert" ELSE IF act[1] = "Update" THEN "Update" ELSE "Delete"

\* The error of one entry action against the entries, "" when it applies.
EntryActionError(entries, key, act) ==
    IF act[1] = "Ins"
    THEN (IF key \in DOMAIN entries THEN "EntryExists" ELSE "")
    ELSE IF key \notin DOMAIN entries THEN "NoSuchEntry"
    ELSE IF act[3] # entries[key].entry_version + 1 THEN "InvalidSuccessor"
    ELSE ""

ApplyEntryActions(entries, actions) ==
    [k \in (DOMAIN entries \cup {x \in DOMAIN actions : actions[x][1] # "Del"})
            \ {x \in DOMAIN actions : actions[x][1] = "Del"} |->
        IF k \in DOMAIN actions
        THEN [content |-> actions[k][2], entry_version |-> actions[k][3]]
        ELSE entries[k]]

\* MutableData::mutate_entries: [res, md]
mutate_entries(md, actions, requester) ==
    IF \E k \in DOMAIN actions : ~is_action_allowed(md, requester, ActionPermission(actions[k]))
    THEN [res |-> Err("AccessDenied"), md |-> md]
    ELSE IF \E k \in DOMAIN actions : EntryActionError(md.data, k, actions[k]) # ""
    THEN [res |-> Err("InvalidEntryActions"), md |-> md]
    ELSE [res |-> Ok(Unit),
          md |-> [md EXCEPT !.data = ApplyEntryActions(md.data, actions),
                            !.version = @ + 1]]

\* MutableData::set_user_permissions: [res, md]
set_user_permissions(md, user, permissions, version, requester) ==
    IF ~is_action_allowed(md, requester, "ManagePermissions")
    THEN [res |-> Err("AccessDenied"), md |-> md]
    ELSE IF version # md.version + 1
    THEN [res |-> Err("InvalidSuccessor"), md |-> md]
    ELSE [res |-> Ok(Unit),
          md |-> [md EXCEPT !.permissions = MapInsert(@, user, permissions),
                            !.version = version]]

\* MutableData::del_user_permissions: [res, md]
del_user_permissions(md, user, version, requester) ==
    IF ~is_action_allowed(md, requester, "ManagePermissions")
    THEN [res |-> Err("AccessDenied"), md |-> md]
    ELSE IF version # md.version + 1
    THEN [res |-> Err("InvalidSuccessor"), md |-> md]
    ELSE IF user \notin DOMAIN md.permissions
    THEN [res |-> Err("NoSuchKey"), md |-> md]
    ELSE [res |-> Ok(Unit),
          md |-> [md EXCEPT !.permissions = MapRemove(@, user), !.version = version]]

\* MutableData::change_owner: [res, md]
change_owner(md, new_owner, version) ==
    IF version # md.version + 1
    THEN [res |-> Err("InvalidSuccessor"), md |-> md]
    ELSE [res |-> Ok(Unit), md |-> [md EXCEPT !.owners = {new_owner}, !.version = version]]

\* ------------------------------------------------------ requests, responses

Request(kind, msg_id, args) == [kind |-> kind, msg_id |-> msg_id, args |-> args]
\* A response that carries one identifier whatever the request's.
Response_of_one_id(kind, res, msg_id) == [kind |-> kind, res |-> res, msg_id |-> 1]
Response(kind, res, msg_id) == [kind |-> kind, res |-> res, msg_id |-> msg_id]
NoResponse == Response("", Err(""), 0)

EventResponse(response, src, dst) ==
    [type |-> "Response", response |-> response, src |-> src, dst |-> dst]

\* core::CORE_ERROR_START_RANGE and ffi::errors::FFI_ERROR_START_RANGE
CORE_ERROR_START_RANGE == -1
FFI_ERROR_START_RANGE == CORE_ERROR_START_RANGE - 1000

EventConnected == [type |-> "Connected"]
EventTerminate == [type |-> "Terminate"]

RequestKinds ==
    {"GetAccountInfo", "PutIData", "GetIData", "PutMData", "GetMDataVersion", "GetMData",
     "GetMDataShell", "ListMDataEntries", "ListMDataKeys", "ListMDataValues",
     "GetMDataValue", "MutateMDataEntries", "ListMDataPermissions",
     "ListMDataUserPermissions", "SetMDataUserPermissions", "DelMDataUserPermissions",
     "ChangeMDataOwner", "ListAuthKeysAndVersion", "InsAuthKey", "DelAuthKey"}

\* A RequestHookFn that overrides the requests whose kind is in `kinds` with a
\* response of that kind and of the request's message id, and passes the rest.
RequestHookFn(kinds, request) ==
    IF request.kind \in kinds
    THEN Some(Response(request.kind, Err("FromHook"), request.msg_id))
    ELSE None

DEFAULT_DELAY_MS == 0
GET_ACCOUNT_INFO_DELAY_MS == DEFAULT_DELAY_MS
PUT_IDATA_DELAY_MS == DEFAULT_DELAY_MS
GET_IDATA_DELAY_MS == DEFAULT_DELAY_MS
PUT_MDATA_DELAY_MS == DEFAULT_DELAY_MS
GET_MDATA_VERSION_DELAY_MS == DEFAULT_DELAY_MS
GET_MDATA_SHELL_DELAY_MS == DEFAULT_DELAY_MS
GET_MDATA_DELAY_MS == DEFAULT_DELAY_MS
GET_MDATA_ENTRIES_DELAY_MS == DEFAULT_DELAY_MS
SET_MDATA_ENTRIES_DELAY_MS == DEFAULT_DELAY_MS
GET_MDATA_PERMISSIONS_DELAY_MS == DEFAULT_DELAY_MS
SET_MDATA_PERMISSIONS_DELAY_MS == DEFAULT_DELAY_MS
CHANGE_MDATA_OWNER_DELAY_MS == DEFAULT_DELAY_MS
LIST_AUTH_KEYS_AND_VERSION_DELAY_MS == DEFAULT_DELAY_MS
INS_AUTH_KEY_DELAY_MS == DEFAULT_DELAY_MS
DEL_AUTH_KEY_DELAY_MS == DEFAULT_DELAY_MS

\* ----------------------------------------------------------------- Routing

\* Routing::new: the fields of a new Routing value.
NewRouting ==
    [max_ops_countdown |-> None, timeout_simulation |-> FALSE, request_hook |-> None,
     panicked |-> FALSE]

\* Routing::new: the connect thread is spawned and has not sent its event;
\* no disconnect thread is running, the value is not dropped, and the channel
\* has its receiver.  `connected` and `terminates` count the events of either
\* kind that were put on the channel; `backlog` is the number of events the
\* owner of the receiver lets wait on the channel when it makes a call.
NewLife ==
    [connect |-> "pending", connected |-> 0, disconnects |-> 0, terminating |-> 0,
     terminates |-> 0, dropped |-> FALSE, receiver |-> TRUE, backlog |-> 0]

\* The same once the connect thread has sent its event.
Established == [NewLife EXCEPT !.connect = "done", !.connected = 1]

\* A callback as `ffi.cb` records it: the function called and its arguments,
\* and the code and the handle passed to o_cb.
Callback(op, actions_h, key, value, entry_version, code, handle) ==
    [op |-> op, actions_h |-> actions_h, key |-> key, value |-> value,
     entry_version |-> entry_version, code |-> code, handle |-> handle]

\* test_utils::create_session: an empty object cache, no callback called.
NewSession ==
    [object_cache |-> EmptyMap, handle_gen |-> 0,
     cb |-> Callback("none", 0, 0, 0, 0, 0, 0)]

client_key(s) == s
client_auth(s) == Client(s)

\* The hook's answer to a request, None when no hook is installed.
override_response(s, request) ==
    IF IsSome(sess[s].request_hook)
    THEN RequestHookFn(Unwrap(sess[s].request_hook), request)
    ELSE None

\* simulate_network_errors with the flag ignored.
simulate_network_errors_ignored(s) == FALSE

simulate_network_errors(s) == sess[s].timeout_simulation

\* network_limits_reached that never reports the countdown exhausted.
network_limits_never_reached(s) == FALSE

network_limits_reached(s) ==
    IF IsSome(sess[s].max_ops_countdown) THEN Unwrap(sess[s].max_ops_countdown) = 0 ELSE FALSE

\* update_network_limits that forgets to count the operation.
update_network_limits_uncounted(s) == sess[s].max_ops_countdown

\* The countdown after update_network_limits.
update_network_limits(s) ==
    IF IsSome(sess[s].max_ops_countdown)
    THEN Some(Unwrap(sess[s].max_ops_countdown) - 1)
    ELSE None

\* verify_network_limits: its result and the countdown it leaves.
verify_network_limits(s) ==
    IF network_limits_reached(s)
    THEN [res |-> Err("NetworkOther: Max operations exhausted"),
          countdown |-> sess[s].max_ops_countdown]
    ELSE [res |-> Ok(Unit), countdown |-> update_network_limits(s)]

\* An owner check that takes any key for an owner of the account.
verify_owner_any_key(dst, owner_keys) ==
    IF ~IsClientManager(dst) THEN Err("InvalidOwners") ELSE Ok(Unit)

\* An owner check that only wants some owner.
verify_owner_some_owner(dst, owner_keys) ==
    IF ~IsClientManager(dst) \/ owner_keys = {} THEN Err("InvalidOwners") ELSE Ok(Unit)

verify_owner(dst, owner_keys) ==
    IF ~IsClientManager(dst) THEN Err("InvalidOwners")
    ELSE IF \E owner_key \in owner_keys : sha3_256(owner_key) = AuthName(dst)
    THEN Ok(Unit)
    ELSE Err("InvalidOwners")

\* A verify_requester that accepts every key.
verify_requester_any(s, requester) == Ok(Unit)

verify_requester(s, requester) ==
    IF ~IsSome(requester) THEN Ok(Unit)
    ELSE IF client_key(s) = Unwrap(requester) THEN Ok(Unit)
    ELSE Err("Invalid requester")

\* What a call did: the vault and countdown it leaves, the response it sent
\* (if any) and from which authority, and how far through the pipeline it got.
\*   stage:   "hook" (overridden), "dropped" (simulated time-out), "early"
\*            (answered before the pipeline), "panic", "done" (answered by it)
\*   quota:   "skipped", "exhausted" or "passed" (verify_network_limits)
\*   auth:    "none", "passed" or "denied" (vault.authorise_mutation)
\*   lock:    "none", "read" or "write" (lock_vault)
\*   commits: calls of vault.commit_mutation
\*   existed: the record addressed was stored when the call looked it up
\* `last` also keeps the countdown the call found (before) and whether the
\* call changed the vault (changed).
Outcome(s) ==
    [accounts |-> accounts, data |-> data, countdown |-> sess[s].max_ops_countdown,
     panic |-> FALSE, sent |-> FALSE, src |-> Client(s), resp |-> NoResponse,
     stage |-> "done", quota |-> "skipped", auth |-> "none", lock |-> "none",
     commits |-> 0, existed |-> FALSE]

Overridden(s, src, response) ==
    [Outcome(s) EXCEPT !.stage = "hook", !.sent = TRUE, !.src = src, !.resp = response]

\* A dropped call that counts against the quota.
Dropped_counted(s) ==
    [Outcome(s) EXCEPT !.stage = "dropped", !.countdown = update_network_limits(s)]

Dropped(s) == [Outcome(s) EXCEPT !.stage = "dropped"]

\* Sender::send: the event joins the channel while the receiver is alive, and
\* is lost (the send is an error) once the receiver is gone.
sender_send(s, event) ==
    IF life[s].receiver THEN [chan EXCEPT ![s] = Append(@, event)] ELSE chan

\* A send_event that leaves every event to a delay thread.
send_event_later(s, delay_ms, event) == chan

\* send_event: the channel after it.  Every delay is zero, so the event is
\* sent on the caller's thread; a delayed event would not be on the channel
\* when the call returns.
send_event(s, delay_ms, event) ==
    IF delay_ms > 0 THEN chan ELSE sender_send(s, event)

send_response(s, delay_ms, src, dst, response) ==
    send_event(s, delay_ms, EventResponse(response, src, dst))

\* No call has just returned.
Idle ==
    [s |-> 0, op |-> "none", msg_id |-> 0, dst |-> Client(0), id |-> <<"None">>, owners |-> {},
     requester |-> None, version |-> None, stage |-> "none", sent |-> FALSE, resp |-> NoResponse, src |-> Client(0),
     quota |-> "skipped", auth |-> "none", lock |-> "none", commits |-> 0,
     existed |-> FALSE, before |-> None, changed |-> FALSE]

\* The client of a session is sequential: it calls an operation or uses a test
\* control only after it is through with its earlier call (it has taken the
\* events of the call from the channel, has given up waiting for them, or
\* lets them wait as its backlog allows), and not at all once a call of it
\* has panicked.
Ready(s) ==
    /\ ~sess[s].panicked /\ ~life[s].dropped
    /\ Len(chan[s]) <= life[s].backlog
    /\ last = Idle

\* A call as `last` records it: the operation, the message identifier passed,
\* its destination, the identifier of the record or account addressed and the
\* owner set passed (if any).
Call(op, msg_id, dst, id, owners) ==
    [op |-> op, msg_id |-> msg_id, dst |-> dst, id |-> id, owners |-> owners,
     requester |-> None, version |-> None]
\* The same for an operation that takes a requester key.
By(call, requester) == [call EXCEPT !.requester = Some(requester)]
\* The same for a change of owner, which takes the version to come.
At(call, version) == [call EXCEPT !.version = Some(version)]
AccountId(dst) == <<"Account", AuthName(dst)>>

\* The calls counted since set_network_limits(Some(n)): all of them, and those
\* that reached verify_network_limits; the counting stops past n + 1.
Counted(s, o) ==
    IF ~IsSome(limited[s].n) THEN limited[s]
    ELSE LET cap == Unwrap(limited[s].n) + 2
             inc(k) == IF k < cap THEN k + 1 ELSE k
         IN  [limited[s] EXCEPT !.calls = inc(@),
                                !.checks = IF o.quota = "skipped" THEN @ ELSE inc(@)]

\* The state after a call by session s with outcome o.
Return(s, call, delay_ms, o) ==
    /\ Ready(s)
    /\ \A id \in DOMAIN o.data : o.data[id].kind = "Mutable" => o.data[id].version <= MaxVersion
    /\ \A n \in DOMAIN o.accounts : o.accounts[n].version <= MaxVersion
    /\ accounts' = o.accounts
    /\ data' = o.data
    /\ sess' = [sess EXCEPT ![s].max_ops_countdown = o.countdown, ![s].panicked = o.panic]
    /\ chan' = IF o.sent THEN send_response(s, delay_ms, o.src, client_auth(s), o.resp)
               ELSE chan
    /\ limited' = [limited EXCEPT ![s] = Counted(s, o)]
    /\ UNCHANGED <<thr, mutex, life, ffi, codes>>
    /\ last' = [s |-> s, op |-> call.op, msg_id |-> call.msg_id, dst |-> call.dst, id |-> call.id,
                owners |-> call.owners, requester |-> call.requester,
                version |-> call.version, stage |-> o.stage,
                sent |-> o.sent, resp |-> o.resp, src |-> o.src, quota |-> o.quota,
                auth |-> o.auth, lock |-> o.lock, commits |-> o.commits,
                existed |-> o.existed, before |-> sess[s].max_ops_countdown,
                changed |-> (o.accounts # accounts \/ o.data # data)]

\* ------------------------------------------------- account-level operations

\* get_account_info: no hook is consulted; the time-out check comes first.
get_account_info_outcome(s, dst, msg_id) ==
    IF simulate_network_errors(s) THEN Dropped(s)
    ELSE LET lim == verify_network_limits(s)
             base == [Outcome(s) EXCEPT !.countdown = lim.countdown, !.src = dst]
         IN  IF ~lim.res.ok
             THEN [base EXCEPT !.sent = TRUE, !.quota = "exhausted",
                               !.resp = Response("GetAccountInfo", lim.res, msg_id)]
             ELSE IF ~IsClientManager(dst)
             THEN [base EXCEPT !.quota = "passed", !.stage = "panic", !.panic = TRUE]
             ELSE LET account == get_account(accounts, AuthName(dst))
                      res == IF IsSome(account) THEN Ok(Unwrap(account).account_info)
                             ELSE Err("NoSuchAccount")
                  IN  [base EXCEPT !.sent = TRUE, !.quota = "passed", !.lock = "read",
                                   !.existed = IsSome(account),
                                   !.resp = Response("GetAccountInfo", res, msg_id)]

get_account_info(s, dst, msg_id) ==
    Return(s, Call("get_account_info", msg_id, dst, AccountId(dst), {}), GET_ACCOUNT_INFO_DELAY_MS,
           get_account_info_outcome(s, dst, msg_id))

\* A commit made whatever the result.
map_commit_always(res, accts, dst) ==
    [accounts |-> commit_mutation(accts, dst), commits |-> 1]

\* A commit forgotten.
map_commit_never(res, accts, dst) == [accounts |-> accts, commits |-> 0]

\* .map(|_| vault.commit_mutation(&dst)) on a result: the accounts after it
\* and the number of commits made.
map_commit(res, accts, dst) ==
    IF res.ok THEN [accounts |-> commit_mutation(accts, dst), commits |-> 1]
    ELSE [accounts |-> accts, commits |-> 0]

\* A store without de-duplication: data already stored is in the way.
put_idata_store_no_dedup(tbl, idata) ==
    IF contains_data(tbl, DataIdImmutable(idata.name))
    THEN [res |-> Err("DataExists"), data |-> tbl]
    ELSE [res |-> Ok(Unit), data |-> insert_data(tbl, DataIdImmutable(idata.name), idata)]

\* The closure of put_idata that stores: immutable data already stored is
\* de-duplicated, anything else under the identifier is in the way.
put_idata_store(tbl, idata) ==
    LET found == get_data(tbl, DataIdImmutable(idata.name))
    IN  IF ~IsSome(found)
        THEN [res |-> Ok(Unit), data |-> insert_data(tbl, DataIdImmutable(idata.name), idata)]
        ELSE IF Unwrap(found).kind = "Immutable" THEN [res |-> Ok(Unit), data |-> tbl]
        ELSE [res |-> Err("DataExists"), data |-> tbl]

\* put_idata: the vault is locked for writing before the quota check.
put_idata_outcome(s, dst, content, msg_id) ==
    LET idata == ImmutableData(content)
        data_name == idata.name
        nae_auth == NaeManager(data_name)
        override == override_response(s, Request("PutIData", msg_id, <<idata>>))
    IN  IF IsSome(override) THEN Overridden(s, nae_auth, Unwrap(override))
        ELSE IF simulate_network_errors(s) THEN Dropped(s)
        ELSE LET lim == verify_network_limits(s)
                 auth == authorise_mutation(accounts, dst, client_key(s))
                 authd == AndThen(lim.res, auth)
                 store == put_idata_store(data, idata)
                 res == AndThen(authd, store.res)
                 commit == map_commit(res, accounts, dst)
             IN  [Outcome(s) EXCEPT
                    !.countdown = lim.countdown, !.src = nae_auth, !.sent = TRUE,
                    !.lock = "write", !.resp = Response("PutIData", res, msg_id),
                    !.quota = IF lim.res.ok THEN "passed" ELSE "exhausted",
                    !.auth = IF ~lim.res.ok THEN "none"
                             ELSE IF auth.ok THEN "passed" ELSE "denied",
                    !.existed = authd.ok /\ contains_data(data, DataIdImmutable(data_name)),
                    !.data = IF authd.ok THEN store.data ELSE data,
                    !.accounts = commit.accounts,
                    !.commits = commit.commits]

put_idata(s, dst, content, msg_id) ==
    Return(s, Call("put_idata", msg_id, dst, DataIdImmutable(sha3_256(content)), {}), PUT_IDATA_DELAY_MS,
           put_idata_outcome(s, dst, content, msg_id))

\* A get_idata that locks the vault for writing.
get_idata_outcome_locking_write(s, dst, name, msg_id) ==
    [Outcome(s) EXCEPT !.sent = TRUE, !.src = NaeManager(name), !.lock = "write",
                       !.resp = Response("GetIData", Err("NoSuchData"), msg_id)]

get_idata_outcome(s, dst, name, msg_id) ==
    LET nae_auth == NaeManager(name)
        override == override_response(s, Request("GetIData", msg_id, <<name>>))
    IN  IF IsSome(override) THEN Overridden(s, nae_auth, Unwrap(override))
        ELSE IF simulate_network_errors(s) THEN Dropped(s)
        ELSE LET lim == verify_network_limits(s)
                 auth == authorise_read(dst, name)
                 found == get_data(data, DataIdImmutable(name))
                 got == IF IsSome(found) /\ Unwrap(found).kind = "Immutable"
                        THEN Ok(Unwrap(found)) ELSE Err("NoSuchData")
                 res == IF ~lim.res.ok THEN lim.res ELSE IF ~auth.ok THEN auth ELSE got
             IN  [Outcome(s) EXCEPT
                    !.countdown = lim.countdown, !.src = nae_auth, !.sent = TRUE,
                    !.lock = "read", !.resp = Response("GetIData", res, msg_id),
                    !.quota = IF lim.res.ok THEN "passed" ELSE "exhausted",
                    !.existed = lim.res.ok /\ auth.ok /\ IsSome(found)]

get_idata(s, dst, name, msg_id) ==
    Return(s, Call("get_idata", msg_id, dst, DataIdImmutable(name), {}), GET_IDATA_DELAY_MS,
           get_idata_outcome(s, dst, name, msg_id))

\* A store that does not look for the record first.
put_mdata_store_overwrite(tbl, data_name, md) ==
    [res |-> Ok(Unit), data |-> insert_data(tbl, data_name, md)]

\* The closure of put_mdata that stores a record that is no session packet.
put_mdata_store(tbl, data_name, md) ==
    IF contains_data(tbl, data_name) THEN [res |-> Err("DataExists"), data |-> tbl]
    ELSE [res |-> Ok(Unit), data |-> insert_data(tbl, data_name, md)]

\* The branch of put_mdata that puts an account: [res, accounts, data].
put_account(accts, tbl, dst_name, data_name, md) ==
    IF contains_data(tbl, data_name)
    THEN [res |-> Err("AccountExists"), accounts |-> accts, data |-> tbl]
    ELSE [res |-> Ok(Unit), accounts |-> insert_account(accts, dst_name),
          data |-> insert_data(tbl, data_name, md)]

\* put_mdata: a session packet creates the account of dst; any other record
\* needs the mutation authorised and an owner of the account of dst.
put_mdata_outcome(s, dst, md, msg_id, requester) ==
    LET data_name == DataIdMutable(md.name, md.tag)
        nae_auth == NaeManager(md.name)
        override == override_response(s, Request("PutMData", msg_id, <<md, requester>>))
    IN  IF IsSome(override) THEN Overridden(s, nae_auth, Unwrap(override))
        ELSE IF simulate_network_errors(s) THEN Dropped(s)
        ELSE LET lim == verify_network_limits(s)
                 base == [Outcome(s) EXCEPT !.countdown = lim.countdown, !.src = nae_auth,
                                            !.lock = "write"]
             IN  IF ~lim.res.ok
                 THEN [base EXCEPT !.sent = TRUE, !.quota = "exhausted",
                                   !.resp = Response("PutMData", lim.res, msg_id)]
                 ELSE IF md.tag = TYPE_TAG_SESSION_PACKET
                 THEN IF ~IsClientManager(dst)
                      THEN [base EXCEPT !.quota = "passed", !.stage = "panic", !.panic = TRUE]
                      ELSE LET put == put_account(accounts, data, AuthName(dst), data_name, md)
                           IN  [base EXCEPT
                                  !.sent = TRUE, !.quota = "passed",
                                  !.existed = contains_data(data, data_name),
                                  !.accounts = put.accounts, !.data = put.data,
                                  !.resp = Response("PutMData", put.res, msg_id)]
                 ELSE LET auth == authorise_mutation(accounts, dst, client_key(s))
                          owner == AndThen(auth, verify_owner(dst, md.owners))
                          store == put_mdata_store(data, data_name, md)
                          res == AndThen(owner, store.res)
                          commit == map_commit(res, accounts, dst)
                      IN  [base EXCEPT
                             !.sent = TRUE, !.quota = "passed",
                             !.auth = IF auth.ok THEN "passed" ELSE "denied",
                             !.existed = owner.ok /\ contains_data(data, data_name),
                             !.data = IF owner.ok THEN store.data ELSE data,
                             !.accounts = commit.accounts,
                             !.commits = commit.commits,
                             !.resp = Response("PutMData", res, msg_id)]

put_mdata(s, dst, md, msg_id, requester) ==
    Return(s, By(Call("put_mdata", msg_id, dst, DataIdMutable(md.name, md.tag), md.owners), requester),
           PUT_MDATA_DELAY_MS,
           put_mdata_outcome(s, dst, md, msg_id, requester))

\* ------------------------------------------------ single-record templates

\* An answer that does not tell an account from other data.
no_such_data(tag) == Err("NoSuchData")

\* with_mdata, no mutable record found: a session packet is an account.
no_such(tag) ==
    IF tag = TYPE_TAG_SESSION_PACKET THEN Err("NoSuchAccount") ELSE Err("NoSuchData")

\* with_mdata: hook, time-out, quota, requester, then f on the record found
\* under the vault lock, and the response g makes of the result.
\* f(md) gives [res, accounts, data, auth, commits]; kind is the response kind of g.
with_mdata(s, name, tag, request, requester, write, f(_), kind) ==
    LET nae_auth == NaeManager(name)
        msg_id == request.msg_id
        override == override_response(s, request)
    IN  IF IsSome(override) THEN Overridden(s, nae_auth, Unwrap(override))
        ELSE IF simulate_network_errors(s) THEN Dropped(s)
        ELSE LET lim == verify_network_limits(s)
                 req == verify_requester(s, requester)
                 base == [Outcome(s) EXCEPT !.countdown = lim.countdown, !.src = nae_auth,
                                            !.sent = TRUE]
             IN  IF ~lim.res.ok
                 THEN [base EXCEPT !.quota = "exhausted",
                                   !.resp = Response(kind, lim.res, msg_id)]
                 ELSE IF ~req.ok
                 THEN [base EXCEPT !.quota = "passed", !.resp = Response(kind, req, msg_id)]
                 ELSE LET found == get_data(data, DataIdMutable(name, tag))
                          locked == [base EXCEPT !.quota = "passed",
                                                 !.lock = IF write THEN "write" ELSE "read"]
                      IN  IF IsSome(found) /\ Unwrap(found).kind = "Mutable"
                          THEN LET out == f(Unwrap(found))
                               IN  [locked EXCEPT
                                      !.existed = TRUE, !.accounts = out.accounts,
                                      !.data = out.data, !.auth = out.auth,
                                      !.commits = out.commits,
                                      !.resp = Response(kind, out.res, msg_id)]
                          ELSE [locked EXCEPT !.resp = Response(kind, no_such(tag), msg_id)]

\* What a closure leaves when it only computes a result.
Pure(res) == [res |-> res, accounts |-> accounts, data |-> data, auth |-> "none", commits |-> 0]

\* read_mdata: the closure authorises the read, then projects the record.
read_mdata(s, dst, name, tag, request, f(_), kind) ==
    with_mdata(s, name, tag, request, None, FALSE,
               LAMBDA md : Pure(AndThen(authorise_read(dst, name), f(md))), kind)

\* A `mutate` closure that evaluates the authorisation and goes on whatever
\* it says.
mutate_whatever(s, dst, name, tag, out) ==
    LET auth == authorise_mutation(accounts, dst, client_key(s))
        passed == IF auth.ok THEN "passed" ELSE "denied"
    IN  IF ~out.res.ok THEN [Pure(out.res) EXCEPT !.auth = passed]
        ELSE [res |-> out.res,
              data |-> insert_data(data, DataIdMutable(name, tag), out.md),
              accounts |-> commit_mutation(accounts, dst),
              auth |-> passed, commits |-> 1]

\* A `mutate` closure that writes the record back under its name alone.
mutate_over_name(s, dst, name, tag, out) ==
    LET auth == authorise_mutation(accounts, dst, client_key(s))
    IN  IF ~auth.ok THEN [Pure(auth) EXCEPT !.auth = "denied"]
        ELSE IF ~out.res.ok THEN [Pure(out.res) EXCEPT !.auth = "passed"]
        ELSE [res |-> out.res,
              data |-> insert_data(data, <<"Immutable", name>>, out.md),
              accounts |-> commit_mutation(accounts, dst),
              auth |-> "passed", commits |-> 1]

\* A `mutate` closure that writes back and commits whatever f answers.
mutate_despite_failure(s, dst, name, tag, out) ==
    LET auth == authorise_mutation(accounts, dst, client_key(s))
    IN  IF ~auth.ok THEN [Pure(auth) EXCEPT !.auth = "denied"]
        ELSE [res |-> out.res,
              data |-> insert_data(data, DataIdMutable(name, tag), out.md),
              accounts |-> commit_mutation(accounts, dst),
              auth |-> "passed", commits |-> 1]

\* The `mutate` closure of mutate_mdata: the mutation is authorised, then the
\* transformed record is written back and committed.  out is f's [res, md].
mutate(s, dst, name, tag, out) ==
    LET auth == authorise_mutation(accounts, dst, client_key(s))
    IN  IF ~auth.ok THEN [Pure(auth) EXCEPT !.auth = "denied"]
        ELSE IF ~out.res.ok THEN [Pure(out.res) EXCEPT !.auth = "passed"]
        ELSE [res |-> out.res,
              data |-> insert_data(data, DataIdMutable(name, tag), out.md),
              accounts |-> commit_mutation(accounts, dst),
              auth |-> "passed", commits |-> 1]

\* mutate_mdata: with_mdata for writing, with the requester to verify.
\* f(md) gives [res, md].
mutate_mdata(s, dst, name, tag, request, requester, f(_), kind) ==
    with_mdata(s, name, tag, request, Some(requester), TRUE,
               LAMBDA md : mutate(s, dst, name, tag, f(md)), kind)

\* ---------------------------------------------- reads of mutable data

get_mdata_version(s, dst, name, tag, msg_id) ==
    Return(s, Call("get_mdata_version", msg_id, dst, DataIdMutable(name, tag), {}),
           GET_MDATA_VERSION_DELAY_MS,
           read_mdata(s, dst, name, tag, Request("GetMDataVersion", msg_id, <<name, tag>>),
                      LAMBDA md : Ok(md.version),
                      "GetMDataVersion"))

get_mdata(s, dst, name, tag, msg_id) ==
    Return(s, Call("get_mdata", msg_id, dst, DataIdMutable(name, tag), {}), GET_MDATA_DELAY_MS,
           read_mdata(s, dst, name, tag, Request("GetMData", msg_id, <<name, tag>>),
                      LAMBDA md : Ok(md),
                      "GetMData"))

get_mdata_shell(s, dst, name, tag, msg_id) ==
    Return(s, Call("get_mdata_shell", msg_id, dst, DataIdMutable(name, tag), {}), GET_MDATA_SHELL_DELAY_MS,
           read_mdata(s, dst, name, tag, Request("GetMDataShell", msg_id, <<name, tag>>),
                      LAMBDA md : Ok([md EXCEPT !.data = EmptyMap]),
                      "GetMDataShell"))

list_mdata_entries(s, dst, name, tag, msg_id) ==
    Return(s, Call("list_mdata_entries", msg_id, dst, DataIdMutable(name, tag), {}),
           GET_MDATA_ENTRIES_DELAY_MS,
           read_mdata(s, dst, name, tag, Request("ListMDataEntries", msg_id, <<name, tag>>),
                      LAMBDA md : Ok(md.data),
                      "ListMDataEntries"))

list_mdata_keys(s, dst, name, tag, msg_id) ==
    Return(s, Call("list_mdata_keys", msg_id, dst, DataIdMutable(name, tag), {}),
           GET_MDATA_ENTRIES_DELAY_MS,
           read_mdata(s, dst, name, tag, Request("ListMDataKeys", msg_id, <<name, tag>>),
                      LAMBDA md : Ok(DOMAIN md.data),
                      "ListMDataKeys"))

list_mdata_values(s, dst, name, tag, msg_id) ==
    Return(s, Call("list_mdata_values", msg_id, dst, DataIdMutable(name, tag), {}),
           GET_MDATA_ENTRIES_DELAY_MS,
           read_mdata(s, dst, name, tag, Request("ListMDataValues", msg_id, <<name, tag>>),
                      LAMBDA md : Ok({md.data[k] : k \in DOMAIN md.data}),
                      "ListMDataValues"))

get_mdata_value(s, dst, name, tag, key, msg_id) ==
    Return(s, Call("get_mdata_value", msg_id, dst, DataIdMutable(name, tag), {}),
           GET_MDATA_ENTRIES_DELAY_MS,
           read_mdata(s, dst, name, tag, Request("GetMDataValue", msg_id, <<name, tag, key>>),
                      LAMBDA md : IF key \in DOMAIN md.data THEN Ok(md.data[key]) ELSE Err("NoSuchEntry"),
                      "GetMDataValue"))

list_mdata_permissions(s, dst, name, tag, msg_id) ==
    Return(s, Call("list_mdata_permissions", msg_id, dst, DataIdMutable(name, tag), {}),
           GET_MDATA_PERMISSIONS_DELAY_MS,
           read_mdata(s, dst, name, tag, Request("ListMDataPermissions", msg_id, <<name, tag>>),
                      LAMBDA md : Ok(md.permissions),
                      "ListMDataPermissions"))

list_mdata_user_permissions(s, dst, name, tag, user, msg_id) ==
    Return(s, Call("list_mdata_user_permissions", msg_id, dst, DataIdMutable(name, tag), {}),
           GET_MDATA_PERMISSIONS_DELAY_MS,
           read_mdata(s, dst, name, tag, Request("ListMDataUserPermissions", msg_id, <<name, tag, user>>),
                      LAMBDA md : IF user \in DOMAIN md.permissions THEN Ok(md.permissions[user]) ELSE Err("NoSuchKey"),
                      "ListMDataUserPermissions"))

\* ------------------------------------------- mutations of mutable data

mutate_mdata_entries(s, dst, name, tag, actions, msg_id, requester) ==
    Return(s, By(Call("mutate_mdata_entries", msg_id, dst, DataIdMutable(name, tag), {}), requester),
           SET_MDATA_ENTRIES_DELAY_MS,
           mutate_mdata(s, dst, name, tag,
                        Request("MutateMDataEntries", msg_id, <<name, tag, actions, requester>>),
                        requester,
                        LAMBDA md : mutate_entries(md, actions, requester),
                        "MutateMDataEntries"))

set_mdata_user_permissions(s, dst, name, tag, user, permissions, version, msg_id, requester) ==
    Return(s, By(Call("set_mdata_user_permissions", msg_id, dst, DataIdMutable(name, tag), {}), requester),
           SET_MDATA_PERMISSIONS_DELAY_MS,
           mutate_mdata(s, dst, name, tag,
                        Request("SetMDataUserPermissions", msg_id,
                                <<name, tag, user, permissions, version, requester>>),
                        requester,
                        LAMBDA md : set_user_permissions(md, user, permissions, version, requester),
                        "SetMDataUserPermissions"))

del_mdata_user_permissions(s, dst, name, tag, user, version, msg_id, requester) ==
    Return(s, By(Call("del_mdata_user_permissions", msg_id, dst, DataIdMutable(name, tag), {}), requester),
           SET_MDATA_PERMISSIONS_DELAY_MS,
           mutate_mdata(s, dst, name, tag,
                        Request("DelMDataUserPermissions", msg_id,
                                <<name, tag, user, version, requester>>),
                        requester,
                        LAMBDA md : del_user_permissions(md, user, version, requester),
                        "DelMDataUserPermissions"))

\* A closure of change_mdata_owner that only looks at the stored owner.
change_owner_closure_owner_only(s, dst, md, new_owner, version) ==
    IF ~IsClientManager(dst) THEN [res |-> Err("InvalidOwners"), md |-> md]
    ELSE LET owner == verify_owner(dst, md.owners)
         IN  IF ~owner.ok
             THEN [res |-> IF owner.err = "InvalidOwners" THEN Err("AccessDenied") ELSE owner,
                   md |-> md]
             ELSE change_owner(md, new_owner, version)

\* A closure of change_mdata_owner that passes the owner check's error on.
change_owner_closure_no_remap(s, dst, md, new_owner, version) ==
    IF ~IsClientManager(dst) THEN [res |-> Err("InvalidOwners"), md |-> md]
    ELSE LET owner == verify_owner(dst, md.owners)
         IN  IF ~owner.ok THEN [res |-> owner, md |-> md]
             ELSE IF sha3_256(client_key(s)) # AuthName(dst)
             THEN [res |-> Err("AccessDenied"), md |-> md]
             ELSE change_owner(md, new_owner, version)

\* The closure of change_mdata_owner: the stored owner and the requester must
\* both be the account of dst.
change_owner_closure(s, dst, md, new_owner, version) ==
    IF ~IsClientManager(dst) THEN [res |-> Err("InvalidOwners"), md |-> md]
    ELSE LET owner == verify_owner(dst, md.owners)
         IN  IF ~owner.ok
             THEN [res |-> IF owner.err = "InvalidOwners" THEN Err("AccessDenied") ELSE owner,
                   md |-> md]
             ELSE IF sha3_256(client_key(s)) # AuthName(dst)
             THEN [res |-> Err("AccessDenied"), md |-> md]
             ELSE change_owner(md, new_owner, version)

\* A change of owner that only turns down the empty set of new owners.
change_mdata_owner_outcome_lax(s, dst, name, tag, new_owners, version, msg_id) ==
    IF new_owners = {}
    THEN [Outcome(s) EXCEPT
            !.stage = "early", !.sent = TRUE, !.src = dst,
            !.resp = Response("ChangeMDataOwner", Err("InvalidOwners"), msg_id)]
    ELSE LET new_owner == CHOOSE owner \in new_owners : TRUE
         IN  mutate_mdata(s, dst, name, tag,
                          Request("ChangeMDataOwner", msg_id,
                                  <<name, tag, {new_owner}, version>>),
                          client_key(s),
                          LAMBDA md : change_owner_closure(s, dst, md, new_owner, version),
                          "ChangeMDataOwner")

\* change_mdata_owner: a set of new owners that is not a singleton is answered
\* at once, before the hook, the time-out and the quota.
change_mdata_owner_outcome(s, dst, name, tag, new_owners, version, msg_id) ==
    IF Cardinality(new_owners) # 1
    THEN [Outcome(s) EXCEPT
            !.stage = "early", !.sent = TRUE, !.src = dst,
            !.resp = Response("ChangeMDataOwner", Err("InvalidOwners"), msg_id)]
    ELSE LET new_owner == CHOOSE owner \in new_owners : TRUE
         IN  mutate_mdata(s, dst, name, tag,
                          Request("ChangeMDataOwner", msg_id,
                                  <<name, tag, {new_owner}, version>>),
                          client_key(s),
                          LAMBDA md : change_owner_closure(s, dst, md, new_owner, version),
                          "ChangeMDataOwner")

change_mdata_owner(s, dst, name, tag, new_owners, version, msg_id) ==
    Return(s, At(Call("change_mdata_owner", msg_id, dst, DataIdMutable(name, tag), new_owners), version),
           CHANGE_MDATA_OWNER_DELAY_MS,
           change_mdata_owner_outcome(s, dst, name, tag, new_owners, version, msg_id))

\* ------------------------------------------------------ authorised keys

\* The pipeline of the three key operations; f(account) gives [res, account].
auth_keys_outcome(s, dst, request, write, f(_), kind) ==
    LET msg_id == request.msg_id
        override == override_response(s, request)
    IN  IF IsSome(override) THEN Overridden(s, dst, Unwrap(override))
        ELSE IF simulate_network_errors(s) THEN Dropped(s)
        ELSE LET lim == verify_network_limits(s)
                 base == [Outcome(s) EXCEPT !.countdown = lim.countdown, !.src = dst]
             IN  IF ~lim.res.ok
                 THEN [base EXCEPT !.sent = TRUE, !.quota = "exhausted",
                                   !.resp = Response(kind, lim.res, msg_id)]
                 ELSE IF ~IsClientManager(dst)
                 THEN [base EXCEPT !.quota = "passed", !.stage = "panic", !.panic = TRUE]
                 ELSE LET account == get_account(accounts, AuthName(dst))
                          locked == [base EXCEPT !.sent = TRUE, !.quota = "passed",
                                                 !.lock = IF write THEN "write" ELSE "read",
                                                 !.existed = IsSome(account)]
                      IN  IF ~IsSome(account)
                          THEN [locked EXCEPT
                                  !.resp = Response(kind, Err("NoSuchAccount"), msg_id)]
                          ELSE LET out == f(Unwrap(account))
                               IN  [locked EXCEPT
                                      !.accounts = [accounts EXCEPT ![AuthName(dst)] = out.account],
                                      !.resp = Response(kind, out.res, msg_id)]

list_auth_keys_and_version(s, dst, msg_id) ==
    Return(s, Call("list_auth_keys_and_version", msg_id, dst, AccountId(dst), {}),
           LIST_AUTH_KEYS_AND_VERSION_DELAY_MS,
           auth_keys_outcome(s, dst, Request("ListAuthKeysAndVersion", msg_id, <<>>), FALSE,
                             LAMBDA account : [res |-> Ok(<<account.auth_keys, account.version>>),
                                               account |-> account],
                             "ListAuthKeysAndVersion"))

ins_auth_key(s, dst, key, version, msg_id) ==
    Return(s, Call("ins_auth_key", msg_id, dst, AccountId(dst), {}),
           INS_AUTH_KEY_DELAY_MS,
           auth_keys_outcome(s, dst, Request("InsAuthKey", msg_id, <<key, version>>), TRUE,
                             LAMBDA account : account_ins_auth_key(account, key, version),
                             "InsAuthKey"))

del_auth_key(s, dst, key, version, msg_id) ==
    Return(s, Call("del_auth_key", msg_id, dst, AccountId(dst), {}),
           DEL_AUTH_KEY_DELAY_MS,
           auth_keys_outcome(s, dst, Request("DelAuthKey", msg_id, <<key, version>>), TRUE,
                             LAMBDA account : account_del_auth_key(account, key, version),
                             "DelAuthKey"))

\* ---------------------------------------------------- test-only controls

set_request_hook(s, hook) ==
    /\ Ready(s)
    /\ sess' = [sess EXCEPT ![s].request_hook = Some(hook)]
    /\ last' = Idle
    /\ UNCHANGED <<accounts, data, chan, limited, thr, mutex, life, ffi, codes>>

remove_request_hook(s) ==
    /\ Ready(s)
    /\ sess' = [sess EXCEPT ![s].request_hook = None]
    /\ last' = Idle
    /\ UNCHANGED <<accounts, data, chan, limited, thr, mutex, life, ffi, codes>>

set_network_limits(s, max_ops_count) ==
    /\ Ready(s)
    /\ sess' = [sess EXCEPT ![s].max_ops_countdown = max_ops_count]
    /\ limited' = [limited EXCEPT ![s] = [n |-> max_ops_count, calls |-> 0, checks |-> 0]]
    /\ last' = Idle
    /\ UNCHANGED <<accounts, data, chan, thr, mutex, life, ffi, codes>>

set_simulate_timeout(s, enable) ==
    /\ Ready(s)
    /\ sess' = [sess EXCEPT ![s].timeout_simulation = enable]
    /\ last' = Idle
    /\ UNCHANGED <<accounts, data, chan, limited, thr, mutex, life, ffi, codes>>

\* The receiver of the session's channel takes the oldest event.
Receive(s) ==
    /\ chan[s] # <<>>
    /\ chan' = [chan EXCEPT ![s] = Tail(@)]
    /\ last' = Idle
    /\ UNCHANGED <<accounts, data, sess, limited, thr, mutex, life, ffi, codes>>

\* The client gives up waiting for the response to a call that was dropped.
GiveUp(s) ==
    /\ last.s = s /\ last.stage = "dropped"
    /\ chan[s] = <<>>
    /\ last' = Idle
    /\ UNCHANGED <<accounts, data, sess, chan, limited, thr, mutex, life, ffi, codes>>

\* A thread that is not in a call.
NoOp == [kind |-> "", dst |-> Client(0), id |-> <<"None">>, actions |-> EmptyMap]
IdleThread ==
    [pc |-> "idle", op |-> NoOp, md |-> None, resp |-> NoResponse, src |-> Client(0),
     at |-> 0, done |-> 0]

\* ------------------------------------------------------------ specification

DataNames == {sha3_256(c) : c \in Contents}
\* The account authority of the identity of key k.
AccountOf(k) == ClientManager(sha3_256(k))
\* Fresh records: version 0, no entries, no permissions.
PutRecords(owner_sets) ==
    {MutableData(name, tag, 0, EmptyMap, EmptyMap, owners) :
        name \in DataNames, tag \in Tags, owners \in owner_sets}
EntryActions(versions) ==
    {Ins(v) : v \in EntryValues}
    \cup {Update(v, ev) : v \in EntryValues, ev \in versions}
    \cup {Del(ev) : ev \in versions}
ActionMaps(versions) ==
    {[k \in {key} |-> act] : key \in EntryKeys, act \in EntryActions(versions)}
Users == {UserKey(2)}
PermissionSets == {{"Insert", "ManagePermissions"}}
\* A hook that overrides every request but GetIData.
Hooks == {RequestKinds \ {"GetIData"}}
Limits == {None} \cup {Some(n) : n \in 0 .. MaxOps}

Init ==
    /\ accounts = EmptyMap
    /\ data = EmptyMap
    /\ sess = [s \in Sessions |-> NewRouting]
    /\ chan = [s \in Sessions |-> <<>>]
    /\ last = Idle
    /\ limited = [s \in Sessions |-> [n |-> None, calls |-> 0, checks |-> 0]]
    /\ thr = [t \in Threads |-> IdleThread]
    /\ mutex = None
    /\ life = [s \in Sessions |-> Established]
    /\ ffi = NewSession
    /\ codes = <<>>

\* A request by a session, with its arguments drawn from the given sets.
Requests(dsts, owner_sets, new_owner_sets, versions, requesters, auth_keys, msg_ids) ==
    \E s \in Sessions, dst \in dsts, msg_id \in msg_ids :
        \/ get_account_info(s, dst, msg_id)
        \/ \E content \in Contents : put_idata(s, dst, content, msg_id)
        \/ \E name \in DataNames : get_idata(s, dst, name, msg_id)
        \/ \E md \in PutRecords(owner_sets), requester \in requesters :
             put_mdata(s, dst, md, msg_id, requester)
        \/ \E name \in DataNames, tag \in Tags :
            \/ get_mdata_version(s, dst, name, tag, msg_id)
            \/ get_mdata(s, dst, name, tag, msg_id)
            \/ get_mdata_shell(s, dst, name, tag, msg_id)
            \/ list_mdata_entries(s, dst, name, tag, msg_id)
            \/ list_mdata_keys(s, dst, name, tag, msg_id)
            \/ list_mdata_values(s, dst, name, tag, msg_id)
            \/ \E key \in EntryKeys : get_mdata_value(s, dst, name, tag, key, msg_id)
            \/ list_mdata_permissions(s, dst, name, tag, msg_id)
            \/ \E user \in Users : list_mdata_user_permissions(s, dst, name, tag, user, msg_id)
            \/ \E actions \in ActionMaps(versions), requester \in requesters :
                 mutate_mdata_entries(s, dst, name, tag, actions, msg_id, requester)
            \/ \E user \in Users, permissions \in PermissionSets, version \in versions,
                  requester \in requesters :
                 set_mdata_user_permissions(s, dst, name, tag, user, permissions, version,
                                            msg_id, requester)
            \/ \E user \in Users, version \in versions, requester \in requesters :
                 del_mdata_user_permissions(s, dst, name, tag, user, version, msg_id, requester)
            \/ \E new_owners \in new_owner_sets, version \in versions :
                 change_mdata_owner(s, dst, name, tag, new_owners, version, msg_id)
        \/ list_auth_keys_and_version(s, dst, msg_id)
        \/ \E key \in auth_keys, version \in versions :
             ins_auth_key(s, dst, key, version, msg_id)
        \/ \E key \in auth_keys, version \in versions :
             del_auth_key(s, dst, key, version, msg_id)

\* A use of the test-only controls of a session.
Controls ==
    \E s \in Sessions :
        \/ \E hook \in Hooks : set_request_hook(s, hook)
        \/ remove_request_hook(s)
        \/ \E max_ops_count \in Limits : set_network_limits(s, max_ops_count)
        \/ \E enable \in BOOLEAN : set_simulate_timeout(s, enable)

\* The pipeline under its test controls: the session calls every operation on
\* its own account and on the data manager, with the hook, the forced time-out
\* and the quota set and cleared between the calls.
Next ==
    \/ Requests({AccountOf(1)} \cup {NaeManager(n) : n \in DataNames},
                {{1}}, {{}, {2}}, {1}, {1}, {2}, MsgIds)
    \/ Controls
    \/ \E s \in Sessions : Receive(s)
    \/ \E s \in Sessions : GiveUp(s)

Spec == Init /\ [][Next]_vars

\* The vault under requests alone: the session addresses its own account, the
\* account of another identity and the data manager, with records owned by
\* either identity, as any requester and at every version.
NextVault ==
    \/ Requests({AccountOf(1), AccountOf(2)} \cup {NaeManager(n) : n \in DataNames},
                {{1}, {2}}, {{}, {1}, {2}, {1, 2}}, 1 .. MaxVersion, Keys, Keys, MsgIds)
    \/ \E s \in Sessions : Receive(s)

SpecVault == Init /\ [][NextVault]_vars

\* ------------------------------------------------------- session lifecycle

\* Whether a send of sender_send puts its event on the channel.
Sent(s) == IF life[s].receiver THEN 1 ELSE 0

\* A connect thread that ends without sending its event.
Connect_unsent(s) ==
    /\ life[s].connect = "pending"
    /\ life' = [life EXCEPT ![s].connect = "done"]
    /\ UNCHANGED <<accounts, data, sess, chan, last, limited, thr, mutex, ffi, codes>>

\* The connect thread of Routing::new, after its sleep: it sends Connected
\* once and ignores the outcome of the send.
Connect(s) ==
    /\ life[s].connect = "pending"
    /\ chan' = sender_send(s, EventConnected)
    /\ life' = [life EXCEPT ![s].connect = "done", ![s].connected = @ + Sent(s)]
    /\ UNCHANGED <<accounts, data, sess, last, limited, thr, mutex, ffi, codes>>

\* simulate_disconnect: it spawns a thread that will send Terminate, and
\* returns.
simulate_disconnect(s) ==
    /\ Ready(s)
    /\ life[s].disconnects < MaxDisconnects
    /\ life' = [life EXCEPT ![s].disconnects = @ + 1, ![s].terminating = @ + 1]
    /\ last' = Idle
    /\ UNCHANGED <<accounts, data, sess, chan, limited, thr, mutex, ffi, codes>>

\* A thread spawned by simulate_disconnect sends Terminate; a failed send
\* panics in that thread alone.
Disconnect(s) ==
    /\ life[s].terminating > 0
    /\ chan' = sender_send(s, EventTerminate)
    /\ life' = [life EXCEPT ![s].terminating = @ - 1, ![s].terminates = @ + Sent(s)]
    /\ UNCHANGED <<accounts, data, sess, last, limited, thr, mutex, ffi, codes>>

\* Drop for Routing: Terminate is sent on the caller's thread and the outcome
\* of the send is ignored.
drop(s) ==
    /\ ~life[s].dropped
    /\ chan' = sender_send(s, EventTerminate)
    /\ life' = [life EXCEPT ![s].dropped = TRUE, ![s].terminates = @ + Sent(s)]
    /\ UNCHANGED <<accounts, data, sess, last, limited, thr, mutex, ffi, codes>>

\* The owner of the channel's receiver drops it: the events not yet received
\* are discarded with it.
DropReceiver(s) ==
    /\ life[s].receiver
    /\ chan' = [chan EXCEPT ![s] = <<>>]
    /\ life' = [life EXCEPT ![s].receiver = FALSE]
    /\ UNCHANGED <<accounts, data, sess, last, limited, thr, mutex, ffi, codes>>

\* A session from its construction to its drop: it creates its account, reads
\* it and stores a chunk, and is disconnected and dropped at any point.
InitLife ==
    /\ accounts = EmptyMap
    /\ data = EmptyMap
    /\ sess = [s \in Sessions |-> NewRouting]
    /\ chan = [s \in Sessions |-> <<>>]
    /\ last = Idle
    /\ limited = [s \in Sessions |-> [n |-> None, calls |-> 0, checks |-> 0]]
    /\ thr = [t \in Threads |-> IdleThread]
    /\ mutex = None
    /\ life = [s \in Sessions |-> NewLife]
    /\ ffi = NewSession
    /\ codes = <<>>

NextLife ==
    \E s \in Sessions :
        \/ Connect(s)
        \/ simulate_disconnect(s)
        \/ Disconnect(s)
        \/ drop(s)
        \/ DropReceiver(s)
        \/ Receive(s)
        \/ \E msg_id \in MsgIds : get_account_info(s, AccountOf(client_key(s)), msg_id)
        \/ \E md \in PutRecords({{client_key(s)}}) :
               put_mdata(s, AccountOf(client_key(s)), md, 1, client_key(s))

SpecLife == InitLife /\ [][NextLife]_vars

\* The same with the connect thread scheduled: a spawned thread that is ready
\* to run does run.
SpecLifeFair == SpecLife /\ \A s \in Sessions : WF_vars(Connect(s))

\* ------------------------------------------- entry actions (object cache)

\* ObjectCache::insert_mdata_entry_actions: the actions are stored under a
\* handle that was not issued before.
insert_mdata_entry_actions(cache, actions) ==
    LET handle == cache.handle_gen + 1 IN
    [object_cache |-> [h \in DOMAIN cache.object_cache \cup {handle} |->
                         IF h = handle THEN actions ELSE cache.object_cache[h]],
     handle_gen |-> handle, handle |-> handle]

\* ObjectCache::get_mdata_entry_actions
get_mdata_entry_actions(cache, handle) ==
    IF handle \in DOMAIN cache.object_cache
    THEN Ok(cache.object_cache[handle])
    ELSE Err("InvalidMDataEntryActionsHandle")

\* ObjectCache::remove_mdata_entry_actions
remove_mdata_entry_actions(cache, handle) ==
    IF handle \in DOMAIN cache.object_cache
    THEN [res |-> Ok(cache.object_cache[handle]),
          object_cache |-> MapRemove(cache.object_cache, handle)]
    ELSE [res |-> Err("InvalidMDataEntryActionsHandle"), object_cache |-> cache.object_cache]

\* The variants of FfiError, each with how far below FFI_ERROR_START_RANGE its
\* arm of `into` puts it.
FfiErrorOffset ==
    [CoreError |-> 0, PathNotFound |-> 1, InvalidPath |-> 2, PermissionDenied |-> 3,
     LocalConfigAccessFailed |-> 8, Unexpected |-> 9, UnsuccessfulEncodeDecode |-> 10,
     NulError |-> 11, InvalidAppHandle |-> 26, InvalidMDataEntriesHandle |-> 27,
     InvalidMDataEntryActionsHandle |-> 28, InvalidXorNameHandle |-> 13,
     InvalidSelfEncryptorHandle |-> 15, InvalidCipherOptHandle |-> 16,
     InvalidEncryptKeyHandle |-> 17, InvalidSignKeyHandle |-> 18,
     OperationForbiddenForApp |-> 19, InvalidVersionNumber |-> 21,
     InvalidSelfEncryptorReadOffsets |-> 22, InvalidIndex |-> 23,
     UnsupportedOperation |-> 24, IoError |-> 25]

\* enum FfiError: the variants that carry a value, and the values they carry here
PayloadVariants ==
    {"CoreError", "LocalConfigAccessFailed", "Unexpected", "UnsuccessfulEncodeDecode",
     "NulError", "IoError"}

Payloads == {1, 2}

FfiError ==
    {[variant |-> v, payload |-> IF v \in PayloadVariants THEN Some(p) ELSE None] :
        v \in DOMAIN FfiErrorOffset, p \in Payloads}

\* a conversion in which the offsets from 16 on fold back onto the first ones
into_folded(error) ==
    FFI_ERROR_START_RANGE - (FfiErrorOffset[error.variant] % 16)

\* Into<i32> for FfiError: every arm matches the variant alone and binds
\* the carried value, where there is one, to `_`. Each arm is a constant
\* expression of i32, which the compiler rejects if it overflows.
into(error) ==
    FFI_ERROR_START_RANGE - FfiErrorOffset[error.variant]

\* the code reported to a callback for an error of the variant named, which
\* in the calls modelled here carries nothing
ffi_error_code(err) == into([variant |-> err, payload |-> None])

mdata_entry_actions_new ==
    /\ ffi.handle_gen < MaxHandles
    /\ LET actions == EmptyMap
           inserted == insert_mdata_entry_actions(ffi, actions)
       IN ffi' = [object_cache |-> inserted.object_cache,
                  handle_gen |-> inserted.handle_gen,
                  cb |-> Callback("new", 0, 0, 0, 0, 0, inserted.handle)]
    /\ UNCHANGED <<accounts, data, sess, chan, last, limited, thr, mutex, life, codes>>

\* An add_action that keeps the action a key already has.
add_action_keep_first(op, actions_h, key, value, entry_version, action) ==
    LET actions == get_mdata_entry_actions(ffi, actions_h) IN
    /\ ffi' = IF ~actions.ok
              THEN [ffi EXCEPT !.cb = Callback(op, actions_h, key, value, entry_version,
                                               ffi_error_code(actions.err), 0)]
              ELSE [ffi EXCEPT !.object_cache[actions_h] =
                                   IF key \in DOMAIN @ THEN @ ELSE MapInsert(@, key, action),
                               !.cb = Callback(op, actions_h, key, value, entry_version, 0, 0)]
    /\ UNCHANGED <<accounts, data, sess, chan, last, limited, thr, mutex, life, codes>>

\* add_action: the action built by the caller's closure is inserted under the
\* key in the actions of the handle; try_cb! reports a failed lookup to o_cb
\* and ends the closure.
add_action(op, actions_h, key, value, entry_version, action) ==
    LET actions == get_mdata_entry_actions(ffi, actions_h) IN
    /\ ffi' = IF ~actions.ok
              THEN [ffi EXCEPT !.cb = Callback(op, actions_h, key, value, entry_version,
                                               ffi_error_code(actions.err), 0)]
              ELSE [ffi EXCEPT !.object_cache[actions_h] = MapInsert(@, key, action),
                               !.cb = Callback(op, actions_h, key, value, entry_version, 0, 0)]
    /\ UNCHANGED <<accounts, data, sess, chan, last, limited, thr, mutex, life, codes>>

mdata_entry_actions_insert(actions_h, key, value) ==
    add_action("insert", actions_h, key, value, 0, <<"Ins", value, 0>>)

mdata_entry_actions_update(actions_h, key, value, entry_version) ==
    add_action("update", actions_h, key, value, entry_version, Update(value, entry_version))

mdata_entry_actions_delete(actions_h, key, entry_version) ==
    add_action("delete", actions_h, key, 0, entry_version, Del(entry_version))

\* A free that ignores the outcome of the removal.
mdata_entry_actions_free_silent(actions_h) ==
    /\ ffi' = [ffi EXCEPT !.object_cache = remove_mdata_entry_actions(ffi, actions_h).object_cache,
                          !.cb = Callback("free", actions_h, 0, 0, 0, 0, 0)]
    /\ UNCHANGED <<accounts, data, sess, chan, last, limited, thr, mutex, life, codes>>

mdata_entry_actions_free(actions_h) ==
    LET removed == remove_mdata_entry_actions(ffi, actions_h) IN
    /\ ffi' = [ffi EXCEPT !.object_cache = removed.object_cache,
                          !.cb = Callback("free", actions_h, 0, 0, 0,
                                          IF removed.res.ok THEN 0
                                          ELSE ffi_error_code(removed.res.err), 0)]
    /\ UNCHANGED <<accounts, data, sess, chan, last, limited, thr, mutex, life, codes>>

\* The handles a caller passes: those the cache issues, and 0, which it never
\* issues.
Handles == 0 .. MaxHandles
ActionKeys == {1, 2}
ActionValues == {1}
ActionVersions == {4}

NextEntryActions ==
    \/ mdata_entry_actions_new
    \/ \E actions_h \in Handles, key \in ActionKeys, value \in ActionValues :
           mdata_entry_actions_insert(actions_h, key, value)
    \/ \E actions_h \in Handles, key \in ActionKeys, value \in ActionValues,
          entry_version \in ActionVersions :
           mdata_entry_actions_update(actions_h, key, value, entry_version)
    \/ \E actions_h \in Handles, key \in ActionKeys, entry_version \in ActionVersions :
           mdata_entry_actions_delete(actions_h, key, entry_version)
    \/ \E actions_h \in Handles : mdata_entry_actions_free(actions_h)

SpecEntryActions == Init /\ [][NextEntryActions]_vars

\* ------------------------------------------------------ pipelined calls

\* The client goes on to its next call and lets the events of the last one
\* wait on the channel.
Continue(s) ==
    /\ last.s = s /\ last.op # "none"
    /\ last' = Idle
    /\ UNCHANGED <<accounts, data, sess, chan, limited, thr, mutex, life, ffi, codes>>

\* A session whose client lets up to MaxBacklog events wait when it calls.
InitPipelined ==
    /\ accounts = EmptyMap
    /\ data = EmptyMap
    /\ sess = [s \in Sessions |-> NewRouting]
    /\ chan = [s \in Sessions |-> <<>>]
    /\ last = Idle
    /\ limited = [s \in Sessions |-> [n |-> None, calls |-> 0, checks |-> 0]]
    /\ thr = [t \in Threads |-> IdleThread]
    /\ mutex = None
    /\ life = [s \in Sessions |-> [Established EXCEPT !.backlog = MaxBacklog]]
    /\ ffi = NewSession
    /\ codes = <<>>

NextPipelined ==
    \E s \in Sessions :
        \/ Continue(s)
        \/ Receive(s)
        \/ \E msg_id \in MsgIds : get_account_info(s, AccountOf(client_key(s)), msg_id)
        \/ \E md \in PutRecords({{client_key(s)}}) :
               put_mdata(s, AccountOf(client_key(s)), md, 1, client_key(s))
        \/ \E content \in Contents, msg_id \in MsgIds :
               put_idata(s, AccountOf(client_key(s)), content, msg_id)
        \/ \E name \in DataNames, msg_id \in MsgIds :
               get_idata(s, NaeManager(name), name, msg_id)

SpecPipelined == InitPipelined /\ [][NextPipelined]_vars

\* ------------------------------------------------- calls told apart by id

\* The message identifiers of calls that are to be told apart.
CorrelationIds == {1, 2}

\* The pipeline with the hook and the quota set and cleared between calls that
\* carry either identifier.
NextCorrelated ==
    \/ Requests({AccountOf(1)} \cup {NaeManager(n) : n \in DataNames},
                {{1}}, {{}, {2}}, {1}, {1}, {2}, CorrelationIds)
    \/ \E s \in Sessions :
        \/ \E hook \in Hooks : set_request_hook(s, hook)
        \/ remove_request_hook(s)
        \/ \E max_ops_count \in Limits : set_network_limits(s, max_ops_count)
        \/ Receive(s)

SpecCorrelated == Init /\ [][NextCorrelated]_vars

\* ------------------------------------------------ the order of the checks

\* The pipeline without a hook, the quota set and cleared between calls that
\* name either key as their requester.
NextPrecedence ==
    \/ Requests({AccountOf(1)} \cup {NaeManager(n) : n \in DataNames},
                {{1}}, {{}, {2}}, {1}, Keys, {2}, MsgIds)
    \/ \E s \in Sessions :
        \/ \E max_ops_count \in Limits : set_network_limits(s, max_ops_count)
        \/ Receive(s)

SpecPrecedence == Init /\ [][NextPrecedence]_vars

\* ------------------------------------------------- errors turned into codes

\* `error.into()` on an FfiError, the code kept next to the error it came from
Convert(error) ==
    /\ Len(codes) < MaxCodes
    /\ codes' = Append(codes, [error |-> error, code |-> into(error)])
    /\ UNCHANGED <<accounts, data, sess, chan, last, limited, thr, mutex, life, ffi>>

NextErrors == \E error \in FfiError : Convert(error)

SpecErrors == Init /\ [][NextErrors]_vars

\* ------------------------------------------------------------------ claims

\* The request a call of an operation stands for.
RequestKindOf ==
    [get_account_info |-> "GetAccountInfo", put_idata |-> "PutIData",
     get_idata |-> "GetIData", put_mdata |-> "PutMData",
     get_mdata_version |-> "GetMDataVersion", get_mdata |-> "GetMData",
     get_mdata_shell |-> "GetMDataShell", list_mdata_entries |-> "ListMDataEntries",
     list_mdata_keys |-> "ListMDataKeys", list_mdata_values |-> "ListMDataValues",
     get_mdata_value |-> "GetMDataValue", list_mdata_permissions |-> "ListMDataPermissions",
     list_mdata_user_permissions |-> "ListMDataUserPermissions",
     mutate_mdata_entries |-> "MutateMDataEntries",
     set_mdata_user_permissions |-> "SetMDataUserPermissions",
     del_mdata_user_permissions |-> "DelMDataUserPermissions",
     change_mdata_owner |-> "ChangeMDataOwner",
     list_auth_keys_and_version |-> "ListAuthKeysAndVersion",
     ins_auth_key |-> "InsAuthKey", del_auth_key |-> "DelAuthKey"]

\* A call of a request operation has just returned.
Called == last.op # "none"
\* The events the last call put on the channel of its session (the channel
\* was empty when it was made).
Delivered == chan[last.s]
QuotaFailure(response) ==
    ~response.res.ok /\ response.res.err = "NetworkOther: Max operations exhausted"
FromHook(response) == ~response.res.ok /\ response.res.err = "FromHook"
\* The hook installed in the session of the last call overrides its request.
HookMatches ==
    /\ IsSome(sess[last.s].request_hook)
    /\ RequestKindOf[last.op] \in Unwrap(sess[last.s].request_hook)
\* The last call was a change_mdata_owner with other than one new owner,
\* which is answered before the pipeline is entered.
RejectedEarly == last.op = "change_mdata_owner" /\ Cardinality(last.owners) # 1

\* C1: with forced-timeout mode off, every call of a request operation puts
\* exactly one Response event on the channel of its session.
C1_OneResponsePerCall ==
    (Called /\ ~sess[last.s].timeout_simulation) =>
        /\ Len(Delivered) = 1
        /\ Delivered[1].type = "Response"

\* C2 as claimed: whatever the operation and its arguments, a call made with
\* the forced-timeout flag set and not overridden by the hook puts no event on
\* the channel.
C2_DroppedForEveryShape ==
    (Called /\ sess[last.s].timeout_simulation /\ last.stage # "hook") =>
        Delivered = <<>>

\* C2, amended: a call made with the forced-timeout flag set and not
\* overridden by the hook puts no event on the channel and leaves the quota
\* alone, unless it is a change_mdata_owner with other than one new owner:
\* that call is answered InvalidOwners whatever the flag.
C2_DroppedUnlessRejectedEarly ==
    (Called /\ sess[last.s].timeout_simulation /\ last.stage # "hook") =>
        IF RejectedEarly
        THEN /\ Len(Delivered) = 1
             /\ Delivered[1].response.res = Err("InvalidOwners")
             /\ last.stage = "early"
        ELSE /\ Delivered = <<>>
             /\ last.stage = "dropped"
             /\ last.quota = "skipped"

C2_Witness ==
    /\ Called /\ sess[last.s].timeout_simulation /\ last.stage = "dropped"
    /\ last.op = "change_mdata_owner"
    /\ Delivered = <<>>

\* C3: when the installed hook returns a response for the request of a call,
\* the vault is not locked (neither read nor changed) and the hook's response
\* is the one event delivered for the call.
C3_HookPrecedence ==
    (Called /\ HookMatches) =>
        /\ last.stage = "hook"
        /\ last.lock = "none"
        /\ Len(Delivered) = 1
        /\ FromHook(Delivered[1].response)

\* The quota set for the session of the last call, if a finite one was set.
QuotaSet == IsSome(limited[last.s].n)
N == Unwrap(limited[last.s].n)
QuotaFailureDelivered ==
    /\ Len(Delivered) = 1
    /\ Delivered[1].type = "Response"
    /\ QuotaFailure(Delivered[1].response)

\* C4 as claimed: of the calls made since set_network_limits(Some(N)), of
\* whatever kind, the (N+1)-th is answered with the quota failure and none of
\* the first N is.
C4_QuotaCountsEveryCall ==
    (Called /\ QuotaSet) =>
        /\ limited[last.s].calls = N + 1 => QuotaFailureDelivered
        /\ limited[last.s].calls <= N => ~(last.sent /\ QuotaFailure(last.resp))

\* C4, amended: the quota counts the calls that reach the quota check.  Of
\* those made since set_network_limits(Some(N)), none of the first N is answered
\* with the quota failure and the (N+1)-th and every later one is; a call
\* answered by the hook, dropped by the forced time-out or rejected before the
\* pipeline does not reach the check and leaves the countdown as it found it.
C4_QuotaCountsChecks ==
    (Called /\ QuotaSet) =>
        IF last.quota = "skipped"
        THEN /\ last.stage \in {"hook", "dropped", "early"}
             /\ sess[last.s].max_ops_countdown = last.before
        ELSE IF limited[last.s].checks <= N
        THEN /\ last.quota = "passed"
             /\ ~(last.sent /\ QuotaFailure(last.resp))
        ELSE /\ last.quota = "exhausted"
             /\ QuotaFailureDelivered

C4_Witness ==
    /\ Called /\ QuotaSet /\ N = MaxOps
    /\ limited[last.s].checks = N + 1
    /\ limited[last.s].calls > N + 1
    /\ QuotaFailureDelivered

\* The countdown is at most what it was, an unlimited one staying unlimited.
NotIncreased(after, before) ==
    IF IsSome(before) THEN IsSome(after) /\ Unwrap(after) <= Unwrap(before)
    ELSE after = None

\* What C5 says of a request that reaches the quota check, and of every
\* request: c > 0 becomes c - 1; at 0 the quota failure is the response, the
\* countdown stays 0 and the vault is unchanged; no request increases the
\* countdown.
C5_Countdown ==
    Called =>
        /\ NotIncreased(sess[last.s].max_ops_countdown, last.before)
        /\ (last.quota # "skipped" /\ IsSome(last.before)) =>
              IF Unwrap(last.before) > 0
              THEN /\ sess[last.s].max_ops_countdown = Some(Unwrap(last.before) - 1)
                   /\ last.quota = "passed"
              ELSE /\ sess[last.s].max_ops_countdown = Some(0)
                   /\ last.quota = "exhausted"
                   /\ QuotaFailureDelivered
                   /\ ~last.changed

\* C5 as claimed: the above, and every request made once the countdown is 0
\* fails with the quota condition.
C5_AllFailOnceExhausted ==
    /\ C5_Countdown
    /\ (Called /\ last.before = Some(0)) => QuotaFailureDelivered

\* C5, amended: the above, and of the requests made once the countdown is 0
\* every one that reaches the quota check fails with the quota condition; the
\* others (answered by the hook, dropped, rejected before the pipeline) leave
\* the vault and the countdown alone.
C5_CheckedFailOnceExhausted ==
    /\ C5_Countdown
    /\ (Called /\ last.before = Some(0)) =>
          /\ sess[last.s].max_ops_countdown = Some(0)
          /\ ~last.changed
          /\ IF last.quota = "skipped"
             THEN last.stage \in {"hook", "dropped", "early"}
             ELSE QuotaFailureDelivered

C5_Witness ==
    /\ Called /\ last.before = Some(0)
    /\ last.op = "put_idata" /\ last.dst = AccountOf(1)
    /\ AccountId(last.dst)[2] \in DOMAIN accounts
    /\ QuotaFailureDelivered

\* The last call was answered with success.
Accepted == last.sent /\ last.resp.res.ok
\* The last call created an account (a put of a session packet) or changed
\* the authorised keys of one: the operations of the account itself.
AccountOperation ==
    \/ last.op = "put_mdata" /\ last.id[3] = TYPE_TAG_SESSION_PACKET
    \/ last.op \in {"ins_auth_key", "del_auth_key"}

\* C6 as claimed: a request changes the vault (data table or accounts) only if
\* the vault's mutation authorisation was evaluated and passed in it, and a
\* request whose mutation authorisation is denied leaves the vault unchanged.
C6_ChangeOnlyIfAuthorised ==
    Called =>
        /\ last.changed => last.auth = "passed"
        /\ last.auth = "denied" => ~last.changed

\* C6, amended: the same of every request but the operations of the account
\* itself: the put of a session packet that creates an account, ins_auth_key
\* and del_auth_key change the vault without the mutation authorisation being
\* evaluated at all.
C6_ChangeOnlyIfAuthorisedButAccount ==
    Called =>
        /\ last.changed => IF AccountOperation THEN last.auth = "none" /\ Accepted
                           ELSE last.auth = "passed" /\ Accepted
        /\ last.auth = "denied" => ~last.changed /\ last.sent /\ ~last.resp.res.ok

C6_Witness ==
    /\ Called /\ last.op = "mutate_mdata_entries"
    /\ last.auth = "denied" /\ last.existed
    /\ ~last.changed

\* C7 as claimed: commit_mutation is invoked exactly once in every request
\* that is accepted and changes the vault, at most once in any request, and
\* never in a request whose response is a failure.
C7_CommitOncePerAcceptedChange ==
    Called =>
        /\ last.commits <= 1
        /\ ~Accepted => last.commits = 0
        /\ (Accepted /\ last.changed) => last.commits = 1

\* C7, amended: commit_mutation is invoked at most once in any request and
\* never in one that is not answered with success; it is invoked exactly once
\* in every accepted request that changes the vault other than by an operation
\* of the account itself (account creation, ins_auth_key, del_auth_key), which
\* are accepted and change the vault with no commit.  No commit is made
\* without the mutation authorisation having passed.
C7_CommitOncePerAcceptedDataChange ==
    Called =>
        /\ last.commits <= 1
        /\ ~Accepted => last.commits = 0
        /\ (Accepted /\ last.changed) =>
              last.commits = IF AccountOperation THEN 0 ELSE 1
        /\ last.commits = 1 => last.auth = "passed" /\ last.changed

C7_Witness ==
    /\ Called /\ last.op = "set_mdata_user_permissions"
    /\ Accepted /\ last.changed /\ last.commits = 1
    /\ accounts[AuthName(last.dst)].account_info.mutations_done = MaxMutations

\* C8: a put of immutable data that is authorised, with quota left, is
\* answered with success whether or not the content was stored before, and
\* leaves exactly one record under the content's name, holding that content.
C8_DedupIdempotence ==
    (Called /\ last.op = "put_idata" /\ last.quota = "passed" /\ last.auth = "passed") =>
        /\ Len(Delivered) = 1
        /\ Delivered[1].response = Response("PutIData", Ok(Unit), Delivered[1].response.msg_id)
        /\ last.id \in DOMAIN data
        /\ Cardinality({id \in DOMAIN data :
                          data[id].kind = "Immutable" /\ data[id].name = last.id[2]}) = 1
        /\ \E content \in Contents : data[last.id] = ImmutableData(content)

C8_Witness ==
    /\ Called /\ last.op = "put_idata" /\ last.existed
    /\ Accepted
    /\ data[last.id] = ImmutableData(4)

\* A step is a put of immutable data whose name is stored already.
PutOfStoredIData == last'.op = "put_idata" /\ contains_data(data, last'.id)

PutOfStoredMData == last'.op = "put_mdata" /\ contains_data(data, last'.id)

\* C10 as claimed: a put_mdata at a (name, tag) that already holds a record is
\* answered DataExists and leaves the stored record unchanged.
C10_StoredPutFailsDataExists ==
    [][PutOfStoredMData =>
          /\ last'.sent /\ last'.resp.res = Err("DataExists")
          /\ data'[last'.id] = data[last'.id]]_vars

\* C10, amended: a put_mdata at a (name, tag) that already holds a record, once
\* past the quota check, never succeeds and leaves the vault unchanged.  With
\* the session-packet tag it is answered AccountExists (and aborts if the
\* destination is no client manager); with any other tag it is answered with
\* the failure of the mutation authorisation if that fails, InvalidOwners if
\* the owner check fails, and DataExists otherwise.
C10_StoredPutFails ==
    [][(PutOfStoredMData /\ last'.quota = "passed") =>
          /\ data' = data /\ accounts' = accounts
          /\ ~last'.resp.res.ok
          /\ IF last'.id[3] = TYPE_TAG_SESSION_PACKET
             THEN IF IsClientManager(last'.dst)
                  THEN last'.sent /\ last'.resp.res = Err("AccountExists")
                  ELSE ~last'.sent /\ last'.stage = "panic"
             ELSE /\ last'.sent
                  /\ last'.resp.res =
                       IF last'.auth = "denied"
                       THEN authorise_mutation(accounts, last'.dst, client_key(last'.s))
                       ELSE IF ~verify_owner(last'.dst, last'.owners).ok
                       THEN Err("InvalidOwners")
                       ELSE Err("DataExists")]_vars

C10_Witness ==
    /\ Called /\ last.op = "put_mdata" /\ last.existed
    /\ last.id[3] # TYPE_TAG_SESSION_PACKET
    /\ last.sent /\ last.resp.res = Err("DataExists")

\* ------------------------------------------------------- account creation

\* Session packets of two names: a client may put its account under any name.
PacketNames == {sha3_256(k) : k \in Keys}
SessionPackets ==
    {MutableData(name, TYPE_TAG_SESSION_PACKET, 0, EmptyMap, EmptyMap, {1}) :
        name \in PacketNames}

\* The session creates its account, uses it and puts session packets again.
NextAccount ==
    \/ \E s \in Sessions, md \in SessionPackets :
         put_mdata(s, AccountOf(client_key(s)), md, 1, client_key(s))
    \/ \E s \in Sessions :
         \E md \in PutRecords({{client_key(s)}, Keys}) :
            put_mdata(s, AccountOf(client_key(s)), md, 1, client_key(s))
    \/ \E s \in Sessions, content \in Contents :
         put_idata(s, AccountOf(client_key(s)), content, 1)
    \/ \E s \in Sessions, key \in Keys, version \in 1 .. MaxVersion :
         /\ key # client_key(s)
         /\ ins_auth_key(s, AccountOf(client_key(s)), key, version, 1)
    \/ \E s \in Sessions : get_account_info(s, AccountOf(client_key(s)), 1)
    \/ \E s \in Sessions : Receive(s)

SpecAccount == Init /\ [][NextAccount]_vars

\* A step is a put of a session packet addressed to an identity that has an
\* account, past the quota check.
PutOfSecondAccount ==
    /\ last'.op = "put_mdata" /\ last'.id[3] = TYPE_TAG_SESSION_PACKET
    /\ last'.quota = "passed"
    /\ IsClientManager(last'.dst) /\ AuthName(last'.dst) \in DOMAIN accounts

\* C11: once an identity has its account, every later put of a session packet
\* addressed to it fails, whatever the name of the record put, and leaves the
\* account as it was.
C11_AccountCreatedOnce ==
    [][PutOfSecondAccount =>
          /\ last'.sent /\ ~last'.resp.res.ok
          /\ accounts' = accounts]_vars

\* ------------------------------------------------- calls, step by step
\*
\* The same calls with the steps of one call told apart, so that the calls of
\* two Routing values interleave: each thread t calls its Routing value, which
\* signs with key t.  thr[t] holds the position of the call (pc), the record
\* it fetched (md), the response it will send (resp) and, for the properties,
\* the number of entry mutations of t that were committed (done) and the number
\* committed by all threads when t fetched the record (at).

\* A lock that lets every caller in.
can_lock_always(write) == TRUE
\* vault::lock(&VAULT, write) on the Mutex VAULT: whether the caller gets it.
can_lock(write) == mutex = None

Committed == thr[1].done + thr[2].done

\* The closure of get_mdata_version.
get_version(md) == Ok(md.version)

CallsMutate(t) == thr[t].op.kind = "MutateMDataEntries"
Step(t, pc) == [thr EXCEPT ![t].pc = pc]
Answer(t, pc, res) ==
    [thr EXCEPT ![t].pc = pc, ![t].resp = Response(thr[t].op.kind, res, 1)]

\* The call enters the operation: hook, simulated time-out and, for the
\* operations on mutable data, quota and requester come before the lock.
CallOp(t, op) ==
    /\ thr[t].pc = "idle" /\ chan[t] = <<>> /\ ~sess[t].panicked
    /\ LET override == override_response(t, Request(op.kind, 1, <<>>))
           called == [thr EXCEPT ![t].op = op, ![t].md = None, ![t].resp = NoResponse,
                                 ![t].src = NaeManager(op.id[2])]
           lim == verify_network_limits(t)
           req == verify_requester(t, IF op.kind = "MutateMDataEntries"
                                      THEN Some(client_key(t)) ELSE None)
       IN  IF IsSome(override)
           THEN /\ thr' = [called EXCEPT ![t].pc = "send", ![t].resp = Unwrap(override)]
                /\ sess' = sess
           ELSE IF simulate_network_errors(t) THEN thr' = thr /\ sess' = sess
           ELSE IF op.kind = "PutIData"
           THEN thr' = [called EXCEPT ![t].pc = "lock"] /\ sess' = sess
           ELSE /\ sess' = [sess EXCEPT ![t].max_ops_countdown = lim.countdown]
                /\ thr' = [called EXCEPT
                             ![t].pc = IF lim.res.ok /\ req.ok THEN "lock" ELSE "send",
                             ![t].resp = Response(op.kind, AndThen(lim.res, req), 1)]
    /\ UNCHANGED <<accounts, data, chan, last, limited, mutex, life, ffi, codes>>

\* lock_vault(write)
LockVault(t) ==
    /\ thr[t].pc = "lock"
    /\ can_lock(thr[t].op.kind # "GetMDataVersion")
    /\ mutex' = Some(t)
    /\ thr' = Step(t, IF thr[t].op.kind = "PutIData" THEN "store" ELSE "get")
    /\ UNCHANGED <<accounts, data, sess, chan, last, limited, life, ffi, codes>>

\* vault.get_data(&DataId::mutable(name, tag)) in with_mdata
GetData(t) ==
    /\ thr[t].pc = "get"
    /\ LET found == get_data(data, thr[t].op.id)
       IN  thr' = IF IsSome(found) /\ Unwrap(found).kind = "Mutable"
                  THEN [thr EXCEPT ![t].md = found, ![t].at = Committed,
                                   ![t].pc = IF CallsMutate(t) THEN "authorise" ELSE "read"]
                  ELSE Answer(t, "unlock", no_such(thr[t].op.id[3]))
    /\ UNCHANGED <<accounts, data, sess, chan, last, limited, mutex, life, ffi, codes>>

\* The closure of read_mdata: authorise_read, then the projection.
ReadClosure(t) ==
    /\ thr[t].pc = "read"
    /\ thr' = Answer(t, "unlock",
                     AndThen(authorise_read(thr[t].op.dst, thr[t].op.id[2]),
                             get_version(Unwrap(thr[t].md))))
    /\ UNCHANGED <<accounts, data, sess, chan, last, limited, mutex, life, ffi, codes>>

\* vault.authorise_mutation(&dst, &client_key)? in the `mutate` closure
Authorise(t) ==
    /\ thr[t].pc = "authorise"
    /\ LET auth == authorise_mutation(accounts, thr[t].op.dst, client_key(t))
       IN  thr' = IF auth.ok THEN Step(t, "transform") ELSE Answer(t, "unlock", auth)
    /\ UNCHANGED <<accounts, data, sess, chan, last, limited, mutex, life, ffi, codes>>

\* let output = f(&mut data)?
Transform(t) ==
    /\ thr[t].pc = "transform"
    /\ LET out == mutate_entries(Unwrap(thr[t].md), thr[t].op.actions, client_key(t))
       IN  thr' = IF out.res.ok
                  THEN [thr EXCEPT ![t].pc = "insert", ![t].md = Some(out.md)]
                  ELSE Answer(t, "unlock", out.res)
    /\ UNCHANGED <<accounts, data, sess, chan, last, limited, mutex, life, ffi, codes>>

\* A write-back that is left out.
InsertData_left_out(t) ==
    /\ thr[t].pc = "insert"
    /\ thr' = Step(t, "commit")
    /\ UNCHANGED <<accounts, data, sess, chan, last, limited, mutex, life, ffi, codes>>

\* vault.insert_data(DataId::mutable(name, tag), Data::Mutable(data))
InsertData(t) ==
    /\ thr[t].pc = "insert"
    /\ data' = insert_data(data, thr[t].op.id, Unwrap(thr[t].md))
    /\ thr' = Step(t, "commit")
    /\ UNCHANGED <<accounts, sess, chan, last, limited, mutex, life, ffi, codes>>

\* vault.commit_mutation(&dst); Ok(output)
CommitMutation(t) ==
    /\ thr[t].pc = "commit"
    /\ accounts' = commit_mutation(accounts, thr[t].op.dst)
    /\ thr' = [Answer(t, "unlock", Ok(Unit)) EXCEPT ![t].done = @ + 1]
    /\ UNCHANGED <<data, sess, chan, last, limited, mutex, life, ffi, codes>>

\* The guard of with_mdata goes out of scope at the end of its block.
Unlock(t) ==
    /\ thr[t].pc = "unlock"
    /\ mutex' = IF mutex = Some(t) THEN None ELSE mutex
    /\ thr' = Step(t, "send")
    /\ UNCHANGED <<accounts, data, sess, chan, last, limited, life, ffi, codes>>

\* put_idata under its lock: quota, authorisation, store and commit.
PutIDataLocked(t) ==
    /\ thr[t].pc = "store"
    /\ LET lim == verify_network_limits(t)
           authd == AndThen(lim.res, authorise_mutation(accounts, thr[t].op.dst, client_key(t)))
           store == put_idata_store(data, ImmutableData(thr[t].op.actions[1]))
           res == AndThen(authd, store.res)
           commit == map_commit(res, accounts, thr[t].op.dst)
       IN  /\ sess' = [sess EXCEPT ![t].max_ops_countdown = lim.countdown]
           /\ data' = IF authd.ok THEN store.data ELSE data
           /\ accounts' = commit.accounts
           /\ thr' = Answer(t, "send", res)
    /\ UNCHANGED <<chan, last, limited, mutex, life, ffi, codes>>

\* self.send_response(..): the guard of put_idata is a local of the whole
\* function and is dropped when the function returns, after the response.
SendResponse(t) ==
    /\ thr[t].pc = "send"
    /\ chan' = send_response(t, DEFAULT_DELAY_MS, thr[t].src, client_auth(t), thr[t].resp)
    /\ thr' = Step(t, IF thr[t].op.kind = "PutIData" THEN "return" ELSE "idle")
    /\ UNCHANGED <<accounts, data, sess, last, limited, mutex, life, ffi, codes>>

\* Ok(()) of put_idata: its locals are dropped, the guard among them.
ReturnOk(t) ==
    /\ thr[t].pc = "return"
    /\ mutex' = IF mutex = Some(t) THEN None ELSE mutex
    /\ thr' = Step(t, "idle")
    /\ UNCHANGED <<accounts, data, sess, chan, last, limited, life, ffi, codes>>

\* The record the threads work on, and what they call: entry mutations and
\* reads of its version, and puts of immutable data, charged to their accounts.
SharedRecord == DataIdMutable(5, 15)
ThreadOps(t) ==
    {[kind |-> "MutateMDataEntries", dst |-> AccountOf(t), id |-> SharedRecord,
      actions |-> a] : a \in ActionMaps({1})}
    \cup {[kind |-> "GetMDataVersion", dst |-> NaeManager(SharedRecord[2]),
           id |-> SharedRecord, actions |-> EmptyMap]}
    \cup {[kind |-> "PutIData", dst |-> AccountOf(t),
           id |-> DataIdImmutable(sha3_256(c)), actions |-> <<c>>] : c \in Contents}

\* Two identities with an account each (their session packets stored under
\* the names of the accounts), and a record the first owns, put with
\* permissions that let the second change its entries.
InitConcurrent ==
    /\ accounts = [n \in {AuthName(AccountOf(k)) : k \in Keys} |->
                     IF n = AuthName(AccountOf(1))
                     THEN [NewAccount EXCEPT !.account_info =
                             [mutations_done |-> 1, mutations_available |-> MaxMutations - 1]]
                     ELSE NewAccount]
    /\ data = [id \in {SharedRecord} \cup
                      {DataIdMutable(AuthName(AccountOf(k)), TYPE_TAG_SESSION_PACKET) : k \in Keys}
                 |-> IF id = SharedRecord
                     THEN MutableData(id[2], id[3], 0, EmptyMap,
                                      [u \in {UserKey(2)} |-> {"Insert", "Update", "Delete"}], {1})
                     ELSE MutableData(id[2], id[3], 0, EmptyMap, EmptyMap,
                                      {k \in Keys : AuthName(AccountOf(k)) = id[2]})]
    /\ sess = [t \in Threads |-> NewRouting]
    /\ chan = [t \in Threads |-> <<>>]
    /\ last = Idle
    /\ limited = [t \in Threads |-> [n |-> None, calls |-> 0, checks |-> 0]]
    /\ thr = [t \in Threads |-> IdleThread]
    /\ mutex = None
    /\ life = [t \in Threads |-> Established]
    /\ ffi = NewSession
    /\ codes = <<>>

NextConcurrent ==
    \E t \in Threads :
        \/ \E op \in ThreadOps(t) : CallOp(t, op)
        \/ LockVault(t)
        \/ GetData(t)
        \/ ReadClosure(t)
        \/ Authorise(t)
        \/ Transform(t)
        \/ InsertData(t)
        \/ CommitMutation(t)
        \/ Unlock(t)
        \/ PutIDataLocked(t)
        \/ SendResponse(t)
        \/ ReturnOk(t)
        \/ Receive(t)

SpecConcurrent == InitConcurrent /\ [][NextConcurrent]_vars

\* ------------------------------------------------------------ concurrency
InVault(t) ==
    thr[t].pc \in {"get", "read", "authorise", "transform", "insert", "commit", "unlock", "store"}
Stored == data[SharedRecord]

\* C12: the fetch, authorisation, transformation, write-back and commit of a
\* mutation run under the lock with no step of another call in between: a
\* thread inside the vault holds the lock, the record a mutation works on is
\* the stored one until it writes back, a reader sees a record whose version
\* counts the committed mutations, and when the lock is free the version of
\* the record is the number of mutations committed (none is lost).
C12_MutationsSerialised ==
    /\ \A t \in Threads : InVault(t) => mutex = Some(t)
    /\ \A t \in Threads :
         thr[t].pc \in {"authorise", "transform"} =>
            Unwrap(thr[t].md) = Stored /\ thr[t].at = Committed
    /\ \A t \in Threads :
         thr[t].pc = "insert" =>
            Unwrap(thr[t].md).version = Stored.version + 1 /\ thr[t].at = Committed
    /\ \A t \in Threads :
         thr[t].pc = "read" => Unwrap(thr[t].md) = Stored /\ Stored.version = Committed
    /\ mutex = None => Stored.version = Committed
C12_Witness ==
    /\ thr[1].pc = "commit" /\ thr[2].pc = "lock" /\ CallsMutate(2)
    /\ thr[2].done = 1

\* C13: no thread holds the lock of the vault when it sends its response.
C13_LockReleasedBeforeSend ==
    \A t \in Threads : thr[t].pc = "send" => mutex # Some(t)

\* C14: an accepted entry mutation writes back a record whose version is one
\* more than the stored one, no other step changes the version, and the
\* version a reader is answered is the number of mutations committed so far.
C14_VersionMonotonic ==
    [][/\ \A t \in Threads :
            thr[t].pc = "insert" /\ thr'[t].pc = "commit" =>
               data'[SharedRecord].version = Stored.version + 1
       /\ (\A t \in Threads : thr[t].pc # "insert") =>
               data'[SharedRecord].version = Stored.version
       /\ \A t \in Threads :
            /\ thr[t].pc = "read" /\ thr'[t].pc = "unlock"
            /\ thr'[t].resp.res.ok
            => thr'[t].resp.res.val = Committed]_vars
C14_Witness ==
    \E t \in Threads :
        /\ thr[t].op.kind = "GetMDataVersion" /\ thr[t].pc = "unlock"
        /\ thr[t].resp.res.ok /\ thr[t].resp.res.val = 2
        /\ thr[1].done = 1 /\ thr[2].done = 1

\* --------------------------------------------------------- error handling
MutatesMData ==
    last.op \in {"mutate_mdata_entries", "set_mdata_user_permissions",
                 "del_mdata_user_permissions", "change_mdata_owner"}
TransformationFailed ==
    /\ MutatesMData /\ last.sent /\ last.existed
    /\ last.auth = "passed" /\ ~last.resp.res.ok

\* C15: a mutating request that was authorised and whose transformation failed
\* has left the vault (records and accounts) as it was and has committed no
\* mutation.
C15_FailedTransformationChangesNothing ==
    TransformationFailed => ~last.changed /\ last.commits = 0
C15_Witness ==
    /\ TransformationFailed /\ last.op = "mutate_mdata_entries"
    /\ last.resp.res = Err("InvalidEntryActions")
    /\ data[last.id].data # EmptyMap
    /\ ~last.changed

ReadsMData ==
    last.op \in {"get_mdata_version", "get_mdata", "get_mdata_shell", "list_mdata_entries",
                 "list_mdata_keys", "list_mdata_values", "get_mdata_value",
                 "list_mdata_permissions", "list_mdata_user_permissions"}
ValidRequester ==
    IsSome(last.requester) => Unwrap(last.requester) = client_key(last.s)
\* A read or a mutation of a record that is not stored (these operations store
\* no new record, so it was not stored when the call was made), with quota
\* left and a valid requester.
OnAbsentRecord ==
    /\ ReadsMData \/ MutatesMData
    /\ last.stage \notin {"hook", "dropped"} /\ last.quota # "exhausted"
    /\ ValidRequester
    /\ last.id \notin DOMAIN data

AnswerForAbsent ==
    IF last.id[3] = TYPE_TAG_SESSION_PACKET THEN Err("NoSuchAccount") ELSE Err("NoSuchData")

\* C16 as stated: every read or mutation of an absent record, with quota left
\* and a valid requester, is answered no-such-account for the session-packet
\* tag and no-such-data otherwise, and changes nothing.
C16_AbsentRecordForEveryRequest ==
    OnAbsentRecord =>
        /\ last.sent /\ last.resp.res = AnswerForAbsent
        /\ ~last.changed

\* C16: the same but for a change of owner with a set of new owners that is
\* not a singleton, which is answered invalid-owners before the record is
\* looked for.
C16_AbsentRecord ==
    OnAbsentRecord /\ ~RejectedEarly =>
        /\ last.sent /\ last.resp.res = AnswerForAbsent
        /\ ~last.changed
C16_Witness ==
    /\ OnAbsentRecord /\ last.op = "mutate_mdata_entries"
    /\ last.id[3] = TYPE_TAG_SESSION_PACKET
    /\ last.resp.res = Err("NoSuchAccount")

\* C17: an operation given a requester key that is not the key of the session
\* (put_mdata, mutate_mdata_entries, set_mdata_user_permissions,
\* del_mdata_user_permissions) is answered invalid-requester and changes
\* nothing.
C17_InvalidRequesterRejected ==
    /\ IsSome(last.requester) /\ ~ValidRequester
    /\ last.stage \notin {"hook", "dropped"} /\ last.quota # "exhausted"
    => /\ last.sent /\ last.resp.res = Err("Invalid requester")
       /\ ~last.changed

\* C18: a change of owner with a set of new owners that is not a singleton is
\* answered invalid-owners, from the destination, with the vault neither
\* locked nor changed.
C18_InvalidOwnersBeforeLock ==
    RejectedEarly =>
        /\ last.sent /\ last.resp.res = Err("InvalidOwners")
        /\ last.lock = "none" /\ ~last.changed
C18_Witness ==
    /\ RejectedEarly /\ Cardinality(last.owners) = 2
    /\ last.resp.res = Err("InvalidOwners") /\ last.lock = "none"
    /\ last.id \in DOMAIN data

\* ------------------------------------------------------ ownership transfer
\* The step is a call of change_mdata_owner that went through the pipeline
\* with quota left.
ChangeOwnerCall ==
    /\ last = Idle /\ last'.op = "change_mdata_owner"
    /\ last'.stage \notin {"hook", "dropped"} /\ last'.quota # "exhausted"
Foreign == sha3_256(client_key(last'.s)) # AuthName(last'.dst)
OwnersOf(tbl, id) == IF id \in DOMAIN tbl THEN tbl[id].owners ELSE {}
\* The record is stored, one new owner is named, and the destination is the
\* client manager of an account that has balance left.
Transferable ==
    /\ last'.id \in DOMAIN data /\ Cardinality(last'.owners) = 1
    /\ IsClientManager(last'.dst) /\ AuthName(last'.dst) \in DOMAIN accounts
    /\ accounts[AuthName(last'.dst)].account_info.mutations_available > 0
\* The session is the owner of the record and of the account of dst, and the
\* version passed is the one to come.
ByOwner ==
    /\ Transferable /\ ~Foreign
    /\ data[last'.id].owners = {client_key(last'.s)}
    /\ last'.version = Some(data[last'.id].version + 1)

\* C19 as stated: a change of owner by a session whose key does not hash to
\* the identity of dst is answered access-denied and leaves the owners as they
\* were, and one by the owner A naming B is accepted and leaves the owners {B}.
C19_TransferAsStated ==
    [][ChangeOwnerCall =>
         /\ Foreign =>
              /\ last'.resp.res = Err("AccessDenied")
              /\ OwnersOf(data', last'.id) = OwnersOf(data, last'.id)
         /\ (/\ ~Foreign /\ last'.id \in DOMAIN data
             /\ data[last'.id].owners = {client_key(last'.s)}
             /\ Cardinality(last'.owners) = 1) =>
              /\ last'.resp.res.ok
              /\ data'[last'.id].owners = last'.owners]_vars

\* C19: a change of owner by a session whose key does not hash to the identity
\* of dst is refused and changes nothing, and is answered access-denied when
\* the record is stored, one new owner is named and dst is the client manager
\* of an account with balance left; one by the owner A naming B, with the
\* version to come and balance left, is accepted and leaves the owners {B}.
C19_Transfer ==
    [][ChangeOwnerCall =>
         /\ Foreign =>
              /\ ~last'.resp.res.ok
              /\ data' = data /\ accounts' = accounts
              /\ Transferable => last'.resp.res = Err("AccessDenied")
         /\ ByOwner =>
              /\ last'.resp.res.ok
              /\ data'[last'.id].owners = last'.owners]_vars
\* The requester is an authorised key of the account of dst, which owns the
\* record: the owner check passes and the requester is turned down.
C19_Witness ==
    /\ last.op = "change_mdata_owner" /\ last.auth = "passed"
    /\ sha3_256(client_key(last.s)) # AuthName(last.dst)
    /\ verify_owner(last.dst, OwnersOf(data, last.id)).ok
    /\ last.resp.res = Err("AccessDenied")

AcceptedChangeOfOwner == ChangeOwnerCall /\ last'.resp.res.ok

\* C20 as stated: after an accepted change of owner the record has one owner,
\* whose name is the name of the account of dst.
C20_OwnerOfDestination ==
    [][AcceptedChangeOfOwner =>
         /\ Cardinality(data'[last'.id].owners) = 1
         /\ \A owner \in data'[last'.id].owners : sha3_256(owner) = AuthName(last'.dst)]_vars

\* C20: after an accepted change of owner the record has one owner, the key
\* the request named; it is the owner before the change and the session that
\* asked whose names are the name of the account of dst.
C20_OwnerInvariant ==
    [][AcceptedChangeOfOwner =>
         /\ Cardinality(data'[last'.id].owners) = 1
         /\ data'[last'.id].owners = last'.owners
         /\ IsClientManager(last'.dst)
         /\ \E owner \in data[last'.id].owners : sha3_256(owner) = AuthName(last'.dst)
         /\ sha3_256(client_key(last'.s)) = AuthName(last'.dst)]_vars
C20_Witness ==
    /\ last.op = "change_mdata_owner" /\ last.resp.res.ok
    /\ last.dst = AccountOf(client_key(last.s))
    /\ data[last.id].owners = last.owners
    /\ client_key(last.s) \notin last.owners

\* ------------------------------------------------------- owners of records
\* A put of a record that is no session packet, past the quota.
PutOfRecord ==
    /\ last.op = "put_mdata" /\ last.id[3] # TYPE_TAG_SESSION_PACKET
    /\ last.stage = "done" /\ last.quota = "passed"
\* dst is the client manager of an account that an asserted owner names.
OwnerOfDestination ==
    /\ IsClientManager(last.dst)
    /\ \E owner_key \in last.owners : sha3_256(owner_key) = AuthName(last.dst)

\* C21 as stated: a put of a record is accepted only with an owner of the
\* account of dst, and is otherwise answered invalid-owners, nothing stored.
C21_InvalidOwnersOtherwise ==
    PutOfRecord =>
        /\ last.resp.res.ok => OwnerOfDestination
        /\ ~OwnerOfDestination => last.resp.res = Err("InvalidOwners") /\ ~last.changed

\* C21: a put of a record is accepted only with an owner of the account of
\* dst; otherwise it is refused with nothing stored, and answered
\* invalid-owners when the vault authorised the mutation.
C21_PutNeedsOwner ==
    PutOfRecord =>
        /\ last.resp.res.ok => OwnerOfDestination
        /\ ~OwnerOfDestination =>
             /\ ~last.resp.res.ok /\ ~last.changed
             /\ last.auth = "passed" => last.resp.res = Err("InvalidOwners")
C21_Witness ==
    /\ PutOfRecord /\ ~OwnerOfDestination /\ last.auth = "passed"
    /\ last.resp.res = Err("InvalidOwners") /\ last.id \notin DOMAIN data

\* C22: every stored mutable record has exactly one owner.
C22_OneOwner ==
    \A id \in DOMAIN data :
        data[id].kind = "Mutable" => Cardinality(data[id].owners) = 1

\* ---------------------------------------------------------------- aborts
\* C24: every call of a request operation returns: none ends in a panic,
\* whatever the destination authority.
C24_NeverAborts ==
    Called => last.stage # "panic" /\ ~sess[last.s].panicked

\* C28: a call whose request the installed hook overrides is answered with
\* the hook's response, also with the forced-timeout flag set and with the
\* countdown at 0, and the countdown is left as it was.
C28_HookBeforeFaultAndQuota ==
    (Called /\ HookMatches) =>
        /\ Len(Delivered) = 1 /\ FromHook(Delivered[1].response)
        /\ last.quota = "skipped"
        /\ sess[last.s].max_ops_countdown = last.before

\* ------------------------------------------------- owner-check failures
\* A change of owner that found its record, past the early rejection.
ChangeOfStoredOwner ==
    /\ last.op = "change_mdata_owner" /\ ~RejectedEarly
    /\ last.stage = "done" /\ last.quota = "passed" /\ last.existed
\* The call left the record as it found it, and no owner of the record names
\* the account of dst.
NoStoredOwnerOfDestination ==
    /\ IsClientManager(last.dst) /\ ~last.changed
    /\ ~\E owner_key \in data[last.id].owners : sha3_256(owner_key) = AuthName(last.dst)

AccountLevel ==
    last.op \in {"get_account_info", "list_auth_keys_and_version",
                 "ins_auth_key", "del_auth_key"}

\* C30: the Response event of a call is addressed to the client authority of
\* its session, from the data manager of the name of the record for the
\* operations on immutable and mutable data and from the destination of the
\* request for the operations on accounts.
C30_ResponseAddressing ==
    (Called /\ last.sent) =>
        /\ Len(Delivered) = 1 /\ Delivered[1].type = "Response"
        /\ Delivered[1].dst = client_auth(last.s)
        /\ Delivered[1].src = IF AccountLevel THEN last.dst
                              ELSE NaeManager(last.id[2])

\* C23: over the life of a session exactly one Terminate event is put on its
\* channel, at teardown (simulate_disconnect or the drop of the Routing
\* value), and no event of the session is put on the channel after it.
C23_TerminateOnceAndLast ==
    [][\A s \in Sessions :
          /\ life'[s].terminates <= 1
          /\ (life'[s].dropped /\ life'[s].receiver) => life'[s].terminates = 1
          /\ life[s].terminates >= 1 => Len(chan'[s]) <= Len(chan[s])]_vars

\* C25: constructing a Routing value puts, in the end, exactly one Connected
\* event on the channel, and its connect thread is what puts it there, unless
\* the receiver of the channel is gone.
C25_ConnectedOnce ==
    /\ [](\A s \in Sessions : life[s].connected <= 1)
    /\ [][\A s \in Sessions :
             life'[s].connected # life[s].connected =>
                 /\ life[s].connect = "pending" /\ life'[s].connect = "done"
                 /\ chan'[s] = Append(chan[s], EventConnected)]_vars
    /\ \A s \in Sessions : <>(life[s].connected = 1 \/ ~life[s].receiver)

C25_Witness ==
    \E s \in Sessions :
        /\ life[s].connected = 1 /\ life[s].receiver
        /\ chan[s] # <<>> /\ chan[s][Len(chan[s])] = EventConnected

\* The last callback reports a call that adds an action.
AddsAction(cb) == cb.op \in {"insert", "update", "delete"}

\* The action the claim states for an adding call.
StatedAction(cb) ==
    CASE cb.op = "insert" -> <<"Ins", cb.value, 0>>
      [] cb.op = "update" -> <<"Update", cb.value, cb.entry_version>>
      [] cb.op = "delete" -> <<"Del", 0, cb.entry_version>>

\* C26: a handle from mdata_entry_actions_new starts with no action; an
\* insert, update or delete on a handle of the cache makes its key map to
\* Ins(value, 0), Update(value, entry_version) or Del(entry_version), leaves
\* the other keys and handles as they were, and reports code 0.
C26_ActionsByKey ==
    [][LET cb == ffi'.cb
           before == ffi.object_cache
           after == ffi'.object_cache
       IN /\ cb.op = "new" =>
                 /\ cb.code = 0
                 /\ cb.handle \notin DOMAIN before
                 /\ DOMAIN after = DOMAIN before \cup {cb.handle}
                 /\ after[cb.handle] = EmptyMap
                 /\ \A h \in DOMAIN before : after[h] = before[h]
          /\ (AddsAction(cb) /\ cb.actions_h \in DOMAIN before) =>
                 /\ cb.code = 0
                 /\ DOMAIN after = DOMAIN before
                 /\ \A h \in DOMAIN before \ {cb.actions_h} : after[h] = before[h]
                 /\ DOMAIN after[cb.actions_h] = DOMAIN before[cb.actions_h] \cup {cb.key}
                 /\ after[cb.actions_h][cb.key] = StatedAction(cb)
                 /\ \A k \in DOMAIN before[cb.actions_h] \ {cb.key} :
                        after[cb.actions_h][k] = before[cb.actions_h][k]]_vars

\* A delete has replaced the action of a key in a handle that holds actions of
\* both keys, next to another handle.
C26_Witness ==
    /\ ffi.cb.op = "delete" /\ ffi.cb.code = 0
    /\ Cardinality(DOMAIN ffi.object_cache) = 2
    /\ DOMAIN ffi.object_cache[ffi.cb.actions_h] = ActionKeys
    /\ \E k \in ActionKeys : ffi.object_cache[ffi.cb.actions_h][k][1] = "Ins"

\* C27: a lookup, an added action or a free on a handle that was freed, or
\* that was never issued, fails: the callback gets a code other than 0 and the
\* object cache stays as it was.
C27_FreedHandleFails ==
    /\ [](\A h \in Handles \ DOMAIN ffi.object_cache :
              ~get_mdata_entry_actions(ffi, h).ok)
    /\ [][LET cb == ffi'.cb IN
          ((AddsAction(cb) \/ cb.op = "free") /\ cb.actions_h \notin DOMAIN ffi.object_cache) =>
              /\ cb.code # 0
              /\ ffi'.object_cache = ffi.object_cache
              /\ ffi'.handle_gen = ffi.handle_gen]_vars

\* A free of a handle that was freed before has just failed, with the other
\* handle still in the cache.
C27_Witness ==
    /\ ffi.cb.op = "free" /\ ffi.cb.code # 0
    /\ ffi.cb.actions_h \in 1 .. ffi.handle_gen
    /\ ffi.cb.actions_h \notin DOMAIN ffi.object_cache
    /\ ffi.object_cache # EmptyMap

\* C31: a call that sends its response has put it at the end of the channel
\* of its session when it returns, and nothing else reorders the channel, so
\* the Response events of a session are in the order of its calls.
C31_ResponseBeforeReturn ==
    [][\A s \in Sessions :
          /\ (last = Idle /\ last'.op # "none" /\ last'.s = s) =>
                 chan'[s] = IF last'.sent
                            THEN Append(chan[s], EventResponse(last'.resp, last'.src,
                                                               client_auth(s)))
                            ELSE chan[s]
          /\ last'.op = "none" =>
                 \/ chan'[s] = chan[s]
                 \/ chan[s] # <<>> /\ chan'[s] = Tail(chan[s])]_vars

\* The response of the call that just returned waits behind the response of
\* an earlier call of another operation.
C31_Witness ==
    /\ Called /\ last.sent
    /\ Len(chan[last.s]) = 2
    /\ chan[last.s][2].response = last.resp
    /\ chan[last.s][1].type = "Response"
    /\ chan[last.s][1].response.kind # last.resp.kind

\* The record stored under an identifier is of the identifier's kind, name
\* and tag.
Keyed(id) ==
    /\ data[id].kind = id[1]
    /\ data[id].name = id[2]
    /\ id[1] = "Mutable" => data[id].tag = id[3]

\* A mutable record is stored under the name, and no immutable one.
OnlyMutableUnder(name) ==
    /\ <<"Immutable", name>> \notin DOMAIN data
    /\ \E tag \in Tags : <<"Mutable", name, tag>> \in DOMAIN data

\* C32: a data identifier maps to a record of its own kind; an authorised put
\* of immutable data succeeds whatever mutable records have its name and is
\* never answered 'data exists'; a put of a mutable record that is authorised
\* and not stored succeeds whatever immutable data has its name; get_idata of
\* a name that holds only mutable records fails, with 'no such data' when the
\* request is checked and addressed to the data manager.
C32_KindsNeverCollide ==
    /\ \A id \in DOMAIN data : Keyed(id)
    /\ (Called /\ last.op = "put_idata" /\ last.sent) =>
           /\ last.resp.res.err # "DataExists"
           /\ last.auth = "passed" => last.resp.res.ok
    /\ (Called /\ last.op = "put_mdata" /\ last.sent /\ last.resp.res.err = "DataExists") =>
           last.existed
    /\ (Called /\ last.op = "get_idata" /\ last.sent /\ OnlyMutableUnder(last.id[2])) =>
           /\ ~last.resp.res.ok
           /\ (last.quota = "passed" /\ last.dst = NaeManager(last.id[2])) =>
                  last.resp.res.err = "NoSuchData"

\* Immutable data has just been stored under a name that mutable records
\* have too.
C32_Witness ==
    /\ Called /\ last.op = "put_idata" /\ last.resp.res.ok /\ ~last.existed
    /\ <<"Immutable", last.id[2]>> \in DOMAIN data
    /\ \E tag \in Tags \ {TYPE_TAG_SESSION_PACKET} : <<"Mutable", last.id[2], tag>> \in DOMAIN data

\* The operations that lock the vault with lock_vault(false).
ReadOperations ==
    {"get_account_info", "get_idata", "get_mdata_version", "get_mdata", "get_mdata_shell",
     "list_mdata_entries", "list_mdata_keys", "list_mdata_values", "get_mdata_value",
     "list_mdata_permissions", "list_mdata_user_permissions", "list_auth_keys_and_version"}

\* C33: a get or list operation locks the vault for reading if it locks it at
\* all and leaves the vault as it was in every outcome; every other operation
\* locks it for writing if at all, and a call that changed the vault held the
\* lock for writing.
C33_LockModeMatchesEffect ==
    Called =>
        /\ last.op \in ReadOperations => last.lock \in {"none", "read"} /\ ~last.changed
        /\ last.op \notin ReadOperations => last.lock \in {"none", "write"}
        /\ last.changed => last.lock = "write"

\* A read has found its record under the read lock, in a vault that an
\* earlier call changed.
C33_Witness ==
    /\ Called /\ last.op \in ReadOperations \ {"get_account_info"}
    /\ last.lock = "read" /\ last.existed /\ last.resp.res.ok

\* The identifiers of the immutable data stored.
StoredImmutable == {id \in DOMAIN data : id[1] = "Immutable"}

\* C34: no call changes or removes stored immutable data: it is the content
\* whose hash is its name, it stays stored as it is, and a get_idata of its
\* name that is sent to the data manager and passes the quota check returns
\* it.
C34_ImmutableNeverChanges ==
    /\ [](\A id \in StoredImmutable :
              /\ data[id].kind = "Immutable"
              /\ sha3_256(data[id].value) = id[2])
    /\ [][\A id \in StoredImmutable : id \in DOMAIN data' /\ data'[id] = data[id]]_vars
    /\ []((Called /\ last.op = "get_idata" /\ last.sent /\ last.quota = "passed"
             /\ last.dst = NaeManager(last.id[2]) /\ last.id \in StoredImmutable) =>
              /\ last.resp.res.ok
              /\ last.resp.res.val = data[last.id]
              /\ last.resp.res.val.value \in Contents)

\* Stored immutable data has been read back after a mutation of a mutable
\* record of the same name.
C34_Witness ==
    /\ Called /\ last.op = "get_idata" /\ last.resp.res.ok
    /\ \E tag \in Tags : /\ <<"Mutable", last.id[2], tag>> \in DOMAIN data
                         /\ data[<<"Mutable", last.id[2], tag>>].version > 0

\* C35: a call dropped by the forced time-out changes neither the vault nor
\* the session (its quota countdown included) nor the channel; an event joins
\* a channel only as the response of a call that returns and was not dropped,
\* so a dropped call is not answered later, whatever the flag is set to; and
\* with the flag off no call is dropped: a call that does not panic is
\* answered with its one response.
C35_DroppedLeavesNoTrace ==
    /\ [][(last = Idle /\ last'.stage = "dropped") =>
              /\ accounts' = accounts /\ data' = data
              /\ sess' = sess /\ chan' = chan]_vars
    /\ [][\A s \in Sessions :
              (chan'[s] # chan[s] /\ Len(chan'[s]) >= Len(chan[s])) =>
                  /\ last = Idle /\ last'.op # "none" /\ last'.s = s
                  /\ last'.stage # "dropped"]_vars
    /\ []((Called /\ ~sess[last.s].timeout_simulation) =>
              /\ last.stage # "dropped"
              /\ last.stage # "panic" =>
                     Len(Delivered) = 1 /\ Delivered[1].response = last.resp)

\* A call was dropped with data stored and quota left.
C35_Witness ==
    /\ Called /\ last.stage = "dropped" /\ ~last.sent
    /\ data # EmptyMap
    /\ IsSome(sess[last.s].max_ops_countdown)
    /\ Unwrap(sess[last.s].max_ops_countdown) > 0

\* C36: the response of a call that the pipeline itself answers (no hook
\* response) is the one event of the call, of the kind of the operation called
\* and with the message identifier the call was given.
C36_ResponseCorrelated ==
    (Called /\ last.sent /\ last.stage # "hook") =>
        /\ Len(Delivered) = 1
        /\ Delivered[1].type = "Response"
        /\ Delivered[1].response.kind = RequestKindOf[last.op]
        /\ Delivered[1].response.msg_id = last.msg_id

\* The pipeline has answered a call of the second identifier whose request
\* the installed hook passed on, after the quota ran out.
C36_Witness ==
    /\ Called /\ last.sent /\ last.msg_id = 2
    /\ IsSome(sess[last.s].request_hook) /\ last.stage = "done"
    /\ last.quota = "exhausted"
    /\ Delivered[1].response.msg_id = 2

\* The last call is of an operation on one mutable record that goes through
\* with_mdata, and was neither overridden by the hook nor dropped.
ThroughWithMData ==
    /\ Called /\ last.id[1] = "Mutable" /\ last.op # "put_mdata"
    /\ last.stage \notin {"hook", "dropped"}
\* What the checks of the last call find, in the order of the claim.  A call
\* that fails adds and removes nothing, so the vault it leaves tells what it
\* found.
QuotaWasOut == last.before = Some(0)
RequesterInvalid == IsSome(last.requester) /\ Unwrap(last.requester) # client_key(last.s)
RecordMissing == last.id \notin DOMAIN data
AuthorisationOf ==
    IF last.op \in ReadOperations
    THEN (IF last.dst = NaeManager(last.id[2]) THEN Ok(Unit) ELSE Err("InvalidOperation"))
    ELSE authorise_mutation(accounts, last.dst, client_key(last.s))
\* The failure the precedence of the claim gives, "" when every check passes.
FirstFailure ==
    IF QuotaWasOut THEN "NetworkOther: Max operations exhausted"
    ELSE IF RequesterInvalid THEN "Invalid requester"
    ELSE IF RecordMissing
    THEN (IF last.id[3] = TYPE_TAG_SESSION_PACKET THEN "NoSuchAccount" ELSE "NoSuchData")
    ELSE IF last.resp.res.ok \/ AuthorisationOf.ok THEN ""
    ELSE AuthorisationOf.err
Precedence ==
    /\ last.sent
    /\ FirstFailure # "" => ~last.resp.res.ok /\ last.resp.res.err = FirstFailure
    /\ (FirstFailure = "" /\ last.op \notin ReadOperations) => last.auth = "passed"
    /\ (IsSome(last.before) /\ ~QuotaWasOut) =>
           sess[last.s].max_ops_countdown = Some(Unwrap(last.before) - 1)
    /\ QuotaWasOut => sess[last.s].max_ops_countdown = Some(0)

\* C37 as stated: every call of an operation on one mutable record reports the
\* first failure in the order quota, requester, missing record, authorisation,
\* own error, and counts against the quota when it got past the quota check.
C37_PrecedenceAsStated == ThroughWithMData => Precedence

\* C37, amended: the same for the calls that enter the pipeline: a
\* change_mdata_owner with other than one new owner is answered InvalidOwners
\* before the quota is looked at, and does not count against it.
C37_PrecedenceInPipeline ==
    /\ (ThroughWithMData /\ ~RejectedEarly) => Precedence
    /\ (ThroughWithMData /\ RejectedEarly) =>
           /\ last.resp.res = Err("InvalidOwners")
           /\ sess[last.s].max_ops_countdown = last.before

\* A mutation with the quota out, a foreign requester and no record stored
\* has been answered with the quota failure.
C37_Witness ==
    /\ ThroughWithMData /\ last.op = "mutate_mdata_entries"
    /\ QuotaWasOut /\ RequesterInvalid /\ RecordMissing
    /\ QuotaFailure(last.resp)

====
